---- MODULE Spec2Model ----
(***************************************************************************)
(* Message selection and filtering of the mail client (commands/read.py):  *)
(* the regex filter, the IMAP and POP3 enumerators and the two selection   *)
(* loops; body extraction (mail_utils.py); the action pipeline, the        *)
(* read_emails pass with its connection (connection.py) and cleanup, the   *)
(* reply and forward commands around it, and the building and sending of   *)
(* messages (commands/send.py, reply.py, forward.py).  Texts are sequences *)
(* of one-character strings; a regex is a sequence of literal characters   *)
(* and the wildcard ".", searched case-insensitively as                    *)
(* re.search(..., re.IGNORECASE) does.                                     *)
(***************************************************************************)
EXTENDS Integers, Sequences, FiniteSets, TLC

VARIABLES
    fr_in,      \* arguments of one filter_by_regex call
    fr_out,     \* its return value, <<v>> (<<>> before the call)
    cfg,        \* arguments of one selection call (protocol, limit, sort, ...)
    mailbox,    \* the server's messages, in server (oldest-first) order
    pc,         \* position of the selection call
    ordered,    \* enumerator: ids after the sort step
    cut,        \* enumerator: ids after the limit step
    refs,       \* enumerator: returned refs
    searches,   \* the queries of the IMAP searches issued
    pop3_sent,  \* the UIDL, LIST and RETR commands sent to the POP3 server
    k,          \* selection loop: number of refs already handled
    since_dt,   \* select_messages_pop3: the local since_dt
    before_dt,  \* select_messages_pop3: the local before_dt
    fetched,    \* indices whose RETR/FETCH succeeded, in order
    results,    \* records returned so far
    eb_in,      \* the message of one extract_body_from_msg call
    eb_out,     \* its return value, <<v>> (<<>> before the call)
    pa_in,      \* arguments and environment of one perform_actions_on_message call
    pa_out,     \* its outcome, <<v>> (<<>> before the call)
    sm_in,      \* arguments of one reply_email, forward_email or send call
    sm_out,     \* what it did, <<v>> (<<>> before the call)
    mail_config, \* read_emails: security and allow_insecure_tls of the mail source
    args,       \* the command and its action arguments (actions, mode, pop3_delete)
    client,     \* the session connect_mail returned, with the TLS context applied
    wire,       \* the commands sent to the server besides search and fetch
    rpc,        \* position of the read_emails call
    processed,  \* read_emails: number of selected records already processed
    results_all, \* read_emails: results_all
    trace,      \* what the record loop did, in order
    cpc,        \* position of the reply/forward/read command
    outbox      \* the messages reply/forward built and sent

vars == <<fr_in, fr_out, cfg, mailbox, pc, ordered, cut, refs, searches, pop3_sent, k,
          since_dt, before_dt, fetched, results, eb_in, eb_out, pa_in, pa_out,
          sm_in, sm_out, mail_config, args, client, wire, rpc, processed, results_all, trace, cpc, outbox>>

selVars == <<cfg, mailbox, pc, ordered, cut, refs, searches, pop3_sent, k,
             since_dt, before_dt, fetched, results>>

callVars == <<eb_in, eb_out, pa_in, pa_out, sm_in, sm_out>>

runVars == <<mail_config, args, client, wire, rpc, processed, results_all, trace, cpc, outbox>>

\* Python's None where a text or a regex is optional (no text holds "None").
None == <<"None">>

------------------------------------------------------------------------------
\* Text and regex search

\* str.lower() on the letters the model's texts use.
Lower(c) ==
    CASE c = "I" -> "i"
      [] c = "U" -> "u"
      [] c = "P" -> "p"
      [] c = "R" -> "r"
      [] c = "E" -> "e"
      [] OTHER -> c

\* One regex atom against one character, under re.IGNORECASE.
AtomMatches(a, c) == a = "." \/ Lower(a) = Lower(c)

\* The pattern matches the text at offset i (0-based).
MatchesAt(pat, text, i) ==
    /\ i + Len(pat) <= Len(text)
    /\ \A j \in 1..Len(pat) : AtomMatches(pat[j], text[i + j])

\* bool(re.search(pat, text, re.IGNORECASE))
ReSearch(pat, text) == \E i \in 0..Len(text) : MatchesAt(pat, text, i)

\* x or ""
OrEmpty(x) == IF x = None THEN <<>> ELSE x

\* str.strip(): leading and trailing blanks removed.
RECURSIVE LStrip(_)
LStrip(s) == IF s # <<>> /\ Head(s) = " " THEN LStrip(Tail(s)) ELSE s

RECURSIVE RStrip(_)
RStrip(s) ==
    IF s # <<>> /\ s[Len(s)] = " " THEN RStrip(SubSeq(s, 1, Len(s) - 1)) ELSE s

Strip(s) == RStrip(LStrip(s))

\* " ".join(texts)
RECURSIVE JoinSpace(_)
JoinSpace(texts) ==
    IF texts = <<>> THEN <<>>
    ELSE IF Len(texts) = 1 THEN texts[1]
    ELSE texts[1] \o <<" ">> \o JoinSpace(Tail(texts))

\* " ".join([text.strip() for _, text in body])
BodyText(parts) == JoinSpace([i \in DOMAIN parts |-> Strip(parts[i].text)])

\* Python truthiness of an optional string argument: None and "" are falsy.
Truthy(x) == x # None /\ x # <<>>

\* all(checks) and any(checks) on a list of booleans
AllOf(checks) == \A i \in DOMAIN checks : checks[i]
AnyOf(checks) == \E i \in DOMAIN checks : checks[i]

\* The body check of filter_by_regex: a list body is joined, a str body is
\* searched as it is.
BodyCheck(body_re, body) ==
    IF body.isList THEN ReSearch(body_re, OrEmpty(BodyText(body.parts)))
    ELSE ReSearch(body_re, OrEmpty(body.text))

\* The list `checks` that filter_by_regex builds.
RegexChecks(subject, body, sender, subject_re, body_re, from_re) ==
    (IF Truthy(subject_re) THEN <<ReSearch(subject_re, OrEmpty(subject))>> ELSE <<>>)
    \o (IF Truthy(body_re) THEN <<BodyCheck(body_re, body)>> ELSE <<>>)
    \o (IF Truthy(from_re) THEN <<ReSearch(from_re, OrEmpty(sender))>> ELSE <<>>)

\* A plausible slip: "any" and "all" swapped.
filter_by_regex_swapped(subject, body, sender, subject_re, body_re, from_re, regex_mode) ==
    LET checks == RegexChecks(subject, body, sender, subject_re, body_re, from_re)
    IN  IF checks = <<>> THEN TRUE
        ELSE IF regex_mode = "all" THEN AnyOf(checks)
        ELSE AllOf(checks)

\* A plausible slip: the early return on an empty `checks` left out.
filter_by_regex_no_early_return(subject, body, sender, subject_re, body_re, from_re, regex_mode) ==
    LET checks == RegexChecks(subject, body, sender, subject_re, body_re, from_re)
    IN  IF regex_mode = "all" THEN AllOf(checks) ELSE AnyOf(checks)

filter_by_regex(subject, body, sender, subject_re, body_re, from_re, regex_mode) ==
    LET checks == RegexChecks(subject, body, sender, subject_re, body_re, from_re)
    IN  IF checks = <<>> THEN TRUE
        ELSE IF regex_mode = "all" THEN AllOf(checks)
        ELSE AnyOf(checks)

------------------------------------------------------------------------------
\* Dates.  A datetime counts half days: t = 2 * day + half is the local
\* time, off the UTC offset in half days, aware whether it carries a tzinfo.

Dt(t, off, aware) == [kind |-> "dt", t |-> t, off |-> off, aware |-> aware]

\* No date: a missing Date header, or a date_since/date_before that is None.
NoDate == [kind |-> "none", t |-> 0, off |-> 0, aware |-> FALSE]

\* A Date header that email.utils.parsedate_to_datetime cannot parse.
BadDate == [kind |-> "bad", t |-> 0, off |-> 0, aware |-> FALSE]

\* dt.astimezone(timezone.utc).replace(tzinfo=None) when dt is aware.
NaiveUtc(d) == IF d.kind = "dt" /\ d.aware THEN Dt(d.t - d.off, 0, FALSE) ELSE d

\* imap_format_date: the calendar day "DD-Mon-YYYY" of the parsed date string;
\* strftime drops the time of day and the offset.
imap_format_date(d) == d.t \div 2

------------------------------------------------------------------------------
\* Messages and body extraction

\* One (content_type, decoded_text) pair of an extracted body.
Part(ctype, text) == [ctype |-> ctype, text |-> text]

\* One leaf part of a parsed message.
MimePart(ctype, dispo, text) == [ctype |-> ctype, dispo |-> dispo, text |-> text]

\* One multipart/* part of a parsed message, with its sub-parts in document order.
Multipart(ctype, parts) == [ctype |-> ctype, dispo |-> "none", parts |-> parts]

\* Message.is_multipart() of a part.
is_multipart(p) == "parts" \in DOMAIN p

\* The payload of a part whose charset Python does not know: decode() raises.
BadCharset == <<"LookupError">>

\* part.get_payload(decode=True).decode(charset, errors="ignore") returns.
Decodes(p) == ~is_multipart(p) /\ p.text # BadCharset

\* Message.walk() below a multipart message: every part, containers included,
\* depth first in document order.
RECURSIVE walk(_)
walk(parts) ==
    IF parts = <<>> THEN <<>>
    ELSE LET p == Head(parts)
         IN  (IF is_multipart(p) THEN <<p>> \o walk(p.parts) ELSE <<p>>)
             \o walk(Tail(parts))

\* extract_body_from_msg: the text parts of a multipart message that are not
\* attachments and decode, in walk order; the only part of a message that is
\* not multipart, whatever its content type and disposition, if it decodes.
extract_body_from_msg(msg) ==
    IF msg.multipart
    THEN LET keep == SelectSeq(walk(msg.parts),
                 LAMBDA p : p.ctype \in {"text/plain", "text/html"}
                            /\ p.dispo # "attachment"
                            /\ Decodes(p))
         IN  [i \in DOMAIN keep |-> Part(keep[i].ctype, keep[i].text)]
    ELSE IF Decodes(msg.parts[1])
         THEN <<Part(msg.parts[1].ctype, msg.parts[1].text)>>
         ELSE <<>>

Reverse(s) == [i \in 1..Len(s) |-> s[Len(s) + 1 - i]]

\* ids[:n] for n >= 0
Prefix(s, n) == SubSeq(s, 1, IF n < Len(s) THEN n ELSE Len(s))

Range(s) == {s[i] : i \in DOMAIN s}

------------------------------------------------------------------------------
\* IMAP enumerator

\* One search key of a query, with its date (a calendar day) where it has one.
Criterion(key, day) == [key |-> key, day |-> day]

\* A plausible slip: the seen selectors swapped.
imap_query_swapped(include_seen, date_since, date_before) ==
    <<Criterion(IF include_seen THEN "UNSEEN" ELSE "ALL", 0)>>
    \o (IF date_since.kind = "dt"
        THEN <<Criterion("SINCE", imap_format_date(date_since))>> ELSE <<>>)
    \o (IF date_before.kind = "dt"
        THEN <<Criterion("BEFORE", imap_format_date(date_before))>> ELSE <<>>)

\* The query fetch_message_ids_imap builds: the list `criteria`, which
\* " ".join turns into the search keys of one SEARCH command.
imap_query(include_seen, date_since, date_before) ==
    <<Criterion(IF include_seen THEN "ALL" ELSE "UNSEEN", 0)>>
    \o (IF date_since.kind = "dt"
        THEN <<Criterion("SINCE", imap_format_date(date_since))>> ELSE <<>>)
    \o (IF date_before.kind = "dt"
        THEN <<Criterion("BEFORE", imap_format_date(date_before))>> ELSE <<>>)

\* One search key on one message (RFC 3501: SINCE keeps internal dates on or
\* after the day, BEFORE keeps internal dates before the day).
KeyHolds(c, m) ==
    CASE c.key = "ALL" -> TRUE
      [] c.key = "UNSEEN" -> ~m.seen
      [] c.key = "SINCE" -> m.internal >= c.day
      [] c.key = "BEFORE" -> m.internal < c.day

\* The server's answer to SEARCH: the sequence numbers, ascending, of the
\* messages that satisfy every key of the query.
ServerSearch(box, query) ==
    SelectSeq([i \in 1..Len(box) |-> i],
        LAMBDA i : \A j \in DOMAIN query : KeyHolds(query[j], box[i]))

\* client.search(None, query) with the query built from the arguments.
ImapSearch(box, include_seen, date_since, date_before) ==
    ServerSearch(box, imap_query(include_seen, date_since, date_before))

\* A plausible slip: reverse on "newest" (the POP3 convention).
ImapSort_pop3way(ids, sort_criteria) ==
    IF sort_criteria = "newest" THEN Reverse(ids) ELSE ids

ImapSort(ids, sort_criteria) ==
    IF sort_criteria = "oldest" THEN Reverse(ids) ELSE ids

\* A plausible slip: the POP3 test `limit > 0`.
ImapLimit_positive(ids, limit) ==
    IF limit > 0 THEN Prefix(ids, limit) ELSE ids

ImapLimit(ids, limit) ==
    IF ~(limit < 0 \/ limit > Len(ids)) THEN Prefix(ids, limit) ELSE ids

\* One outcome of an enumerator call: the list after sorting, after the limit,
\* the returned list, and whether the call raised instead of returning.
EnumOutcome(ord, c, r, raised) ==
    [ordered |-> ord, cut |-> c, refs |-> r, raised |-> raised]

\* A plausible slip: the random pick made before the limit is applied.
fetch_message_ids_imap_pick_early(ids, limit, sort_criteria, random_pick) ==
    LET ord == ImapSort(ids, sort_criteria)
        c == ImapLimit(ord, limit)
    IN  IF ids = <<>> THEN {EnumOutcome(<<>>, <<>>, <<>>, FALSE)}
        ELSE IF random_pick
             THEN {EnumOutcome(ord, c, <<ord[j]>>, FALSE) : j \in DOMAIN ord}
             ELSE {EnumOutcome(ord, c, c, FALSE)}

\* fetch_message_ids_imap after the search: every outcome the call can have
\* (random.choice picks any element; on an empty list it raises IndexError).
fetch_message_ids_imap(ids, limit, sort_criteria, random_pick) ==
    LET ord == ImapSort(ids, sort_criteria)
        c == ImapLimit(ord, limit)
    IN  IF ids = <<>> THEN {EnumOutcome(<<>>, <<>>, <<>>, FALSE)}
        ELSE IF random_pick
             THEN IF c = <<>> THEN {EnumOutcome(ord, c, <<>>, TRUE)}
                  ELSE {EnumOutcome(ord, c, <<c[j]>>, FALSE) : j \in DOMAIN c}
             ELSE {EnumOutcome(ord, c, c, FALSE)}

------------------------------------------------------------------------------
\* POP3 enumerator

\* One command sent to the server.
Cmd(name, arg) == [cmd |-> name, arg |-> arg]

\* A ref of the POP3 enumerator.
Pop3Ref(index, uid) == [index |-> index, uid |-> uid]

\* A plausible slip: the zero-based position instead of the server's index.
MsgUid_zero_based(index) == <<"msg-", index - 1>>

\* The uid synthesized when UIDL is not supported: f"msg-{index}".
MsgUid(index) == <<"msg-", index>>

\* client.uidl(), or client.list() after UIDL failed with error_proto.
Pop3Listing(box, uidl) ==
    [i \in 1..Len(box) |-> Pop3Ref(i, IF uidl THEN box[i].uid ELSE MsgUid(i))]

\* The listing commands fetch_message_ids_pop3 sends: UIDL, and LIST after a
\* UIDL that the server answered with a protocol error.  uidl says whether
\* the server supports UIDL.
Pop3ListingCommands(uidl) ==
    IF uidl THEN <<Cmd("UIDL", 0)>> ELSE <<Cmd("UIDL", 0), Cmd("LIST", 0)>>

Pop3Sort(ids, sort_criteria) ==
    IF sort_criteria = "newest" THEN Reverse(ids) ELSE ids

\* A plausible slip: the limit applied before the sort.
Pop3SortLimit_limit_first(ids, limit, sort_criteria) ==
    LET c == IF limit > 0 THEN Prefix(ids, limit) ELSE ids
    IN  [ordered |-> Pop3Sort(ids, sort_criteria), cut |-> Pop3Sort(c, sort_criteria)]

\* A plausible slip: the limit step left out.
Pop3Limit_ignored(ids, limit) == ids

Pop3Limit(ids, limit) ==
    IF limit > 0 THEN Prefix(ids, limit) ELSE ids

\* The sort step, then the limit step.
Pop3SortLimit(ids, limit, sort_criteria) ==
    LET ord == Pop3Sort(ids, sort_criteria)
    IN  [ordered |-> ord, cut |-> Pop3Limit(ord, limit)]

\* fetch_message_ids_pop3 after the listing: every outcome the call can have.
fetch_message_ids_pop3(ids, limit, sort_criteria, random_pick) ==
    LET sl == Pop3SortLimit(ids, limit, sort_criteria)
        ord == sl.ordered
        c == sl.cut
    IN  IF ids = <<>> THEN {EnumOutcome(<<>>, <<>>, <<>>, FALSE)}
        ELSE IF random_pick /\ c # <<>>
             THEN {EnumOutcome(ord, c, <<c[j]>>, FALSE) : j \in DOMAIN c}
             ELSE {EnumOutcome(ord, c, c, FALSE)}

------------------------------------------------------------------------------
\* Inputs of the filter_by_regex calls

TxtInv4 == <<"I", "n", "v", " ", "4">>
TxtPay == <<"p", "a", "y">>
TxtUrg == <<"U", "r", "g">>

ListBody(parts) == [isList |-> TRUE, parts |-> parts, text |-> <<>>]
StrBody(text) == [isList |-> FALSE, parts |-> <<>>, text |-> text]

BodyPayUp ==
    ListBody(<<Part("text/plain", <<" ">> \o TxtPay \o <<" ">>),
               Part("text/html", <<"u", "p">>)>>)

Subjects == {TxtInv4, TxtPay, <<>>, None}
Bodies == {BodyPayUp, ListBody(<<>>), ListBody(<<Part("text/plain", TxtUrg)>>),
           StrBody(TxtUrg), StrBody(None)}
Senders == {<<"u", "@", "p">>, <<"i", "@", "p">>, None}

SubjectRegexes == {None, <<>>, <<"i", "n", "v">>, <<"P", ".", "y">>}
BodyRegexes == {None, <<>>, <<"u", "r", "g">>, <<"y", " ", "u">>}
FromRegexes == {None, <<"U", "@">>}
RegexModes == {"all", "any"}

\* A TLS context: whether the host name and the certificate are checked.
SslContext(check_hostname, verify_mode) ==
    [check_hostname |-> check_hostname, verify_mode |-> verify_mode]

\* The connection is not encrypted.
NoTls == SslContext(FALSE, "no TLS")

\* No session.
NoClient == [state |-> "none", tls |-> NoTls]

\* No read_emails call and no command is running.
RunIdle ==
    /\ mail_config = <<>>
    /\ args = <<>>
    /\ client = NoClient
    /\ wire = <<>>
    /\ rpc = "idle"
    /\ processed = 0
    /\ results_all = <<>>
    /\ trace = <<>>
    /\ cpc = "idle"
    /\ outbox = <<>>

\* The selection state while only filter_by_regex is exercised.
SelIdle ==
    /\ RunIdle
    /\ cfg = [protocol |-> "none"]
    /\ mailbox = <<>>
    /\ pc = "idle"
    /\ ordered = <<>>
    /\ cut = <<>>
    /\ refs = <<>>
    /\ searches = <<>>
    /\ pop3_sent = <<>>
    /\ k = 0
    /\ since_dt = NoDate
    /\ before_dt = NoDate
    /\ fetched = <<>>
    /\ results = <<>>

\* No extract_body_from_msg or perform_actions_on_message call is exercised.
CallIdle ==
    /\ eb_in = <<>>
    /\ eb_out = <<>>
    /\ pa_in = <<>>
    /\ pa_out = <<>>
    /\ sm_in = <<>>
    /\ sm_out = <<>>

InitRegex ==
    /\ fr_in \in [subject : Subjects, body : Bodies, sender : Senders,
                  subject_re : SubjectRegexes, body_re : BodyRegexes,
                  from_re : FromRegexes, regex_mode : RegexModes]
    /\ fr_out = <<>>
    /\ SelIdle
    /\ CallIdle

\* One call of filter_by_regex.
FilterCall ==
    /\ fr_out = <<>>
    /\ fr_out' = <<filter_by_regex(fr_in.subject, fr_in.body, fr_in.sender,
                                   fr_in.subject_re, fr_in.body_re, fr_in.from_re,
                                   fr_in.regex_mode)>>
    /\ UNCHANGED <<fr_in, selVars, callVars, runVars>>

NextRegex == FilterCall

SpecRegex == InitRegex /\ [][NextRegex]_vars

------------------------------------------------------------------------------
\* Client-side date stage of select_messages_pop3

DateStage(since, before, skip) == [since |-> since, before |-> before, skip |-> skip]

\* A plausible slip: a Date header that fails to parse drops the message.
Pop3DateStage_drop_unparsed(date_str, since, before) ==
    IF date_str.kind # "none" /\ (since.kind = "dt" \/ before.kind = "dt")
    THEN IF date_str.kind = "bad" THEN DateStage(since, before, TRUE)
         ELSE LET msg_dt == NaiveUtc(date_str)
                  s == NaiveUtc(since)
                  b == NaiveUtc(before)
              IN  DateStage(s, b, \/ s.kind = "dt" /\ msg_dt.t < s.t
                                  \/ b.kind = "dt" /\ msg_dt.t > b.t)
    ELSE DateStage(since, before, FALSE)

\* The date block of the loop body: the new values of since_dt and before_dt
\* and whether the message is skipped.  A parse failure is logged and skips
\* nothing; it happens before the bounds are converted.
Pop3DateStage(date_str, since, before) ==
    IF date_str.kind # "none" /\ (since.kind = "dt" \/ before.kind = "dt")
    THEN IF date_str.kind = "bad" THEN DateStage(since, before, FALSE)
         ELSE LET msg_dt == NaiveUtc(date_str)
                  s == NaiveUtc(since)
                  b == NaiveUtc(before)
              IN  DateStage(s, b, \/ s.kind = "dt" /\ msg_dt.t < s.t
                                  \/ b.kind = "dt" /\ msg_dt.t > b.t)
    ELSE DateStage(since, before, FALSE)

\* The regex stage on a parsed message.
PassesRegex(msg) ==
    filter_by_regex(msg.subject, ListBody(extract_body_from_msg(msg)), msg.from,
                    cfg.subject_re, cfg.body_re, cfg.from_re, cfg.regex_mode)

\* The record appended to the results.
Record(id, msg) ==
    [id |-> id, raw_msg |-> msg, date |-> msg.date, subject |-> msg.subject,
     from |-> msg.from, to |-> msg.to, body |-> extract_body_from_msg(msg)]

------------------------------------------------------------------------------
\* Mailboxes and selection arguments

AddrU == <<"u", "@", "p">>
AddrI == <<"i", "@", "p">>

\* The messages a mailbox is made of.  Days 0..3 are four calendar days in
\* order; internal is the day the server received the message; uid is the
\* unique id the POP3 server lists for it (two servers number their messages).
Catalog ==
    << [uid |-> "m1", date |-> Dt(0, 0, FALSE), internal |-> 0, seen |-> FALSE,
        subject |-> TxtPay, from |-> AddrU, to |-> AddrI, multipart |-> TRUE,
        parts |-> <<MimePart("text/plain", "inline", <<" ">> \o TxtPay \o <<" ">>),
                    MimePart("text/plain", "attachment", TxtUrg),
                    MimePart("text/html", "none", <<"u", "p">>)>>],
       [uid |-> "1", date |-> Dt(2, 0, TRUE), internal |-> 1, seen |-> FALSE,
        subject |-> TxtInv4, from |-> AddrI, to |-> AddrU, multipart |-> FALSE,
        parts |-> <<MimePart("text/plain", "none", TxtUrg)>>],
       [uid |-> "m3", date |-> BadDate, internal |-> 1, seen |-> FALSE,
        subject |-> TxtInv4, from |-> AddrU, to |-> AddrI, multipart |-> FALSE,
        parts |-> <<MimePart("text/plain", "none", TxtPay)>>],
       [uid |-> "2", date |-> Dt(4, 0, TRUE), internal |-> 2, seen |-> FALSE,
        subject |-> TxtPay, from |-> AddrI, to |-> AddrU, multipart |-> FALSE,
        parts |-> <<MimePart("text/html", "none", TxtUrg)>>],
       [uid |-> "m5", date |-> NoDate, internal |-> 2, seen |-> TRUE,
        subject |-> TxtInv4, from |-> AddrU, to |-> AddrI, multipart |-> FALSE,
        parts |-> <<MimePart("text/plain", "none", TxtUrg)>>],
       [uid |-> "m6", date |-> Dt(7, 1, TRUE), internal |-> 3, seen |-> FALSE,
        subject |-> TxtInv4, from |-> AddrI, to |-> AddrU, multipart |-> FALSE,
        parts |-> <<MimePart("text/plain", "none", TxtPay)>> ] >>

\* Largest mailbox.
MaxMsgs == 3

\* Most fetches that fail in one selection, most failures in one pass.
MaxFails == 1

\* Largest --limit of the enumerator runs.
MaxLimit == 4

SetMin(S) == CHOOSE x \in S : \A y \in S : x <= y

\* The catalog messages with index in S, in catalog (arrival) order.
RECURSIVE BoxOf(_)
BoxOf(S) ==
    IF S = {} THEN <<>>
    ELSE <<Catalog[SetMin(S)]>> \o BoxOf(S \ {SetMin(S)})

Mailboxes ==
    {BoxOf(S) : S \in {T \in SUBSET (1..Len(Catalog)) : Cardinality(T) <= MaxMsgs}}

Sorts == {"oldest", "newest"}

\* --date-since values: none, day 1, day 1 noon, day 2 at offset +12h.
Sinces == {NoDate, Dt(2, 0, FALSE), Dt(3, 0, FALSE), Dt(4, 1, TRUE)}

\* --date-before values: none, day 3.
Befores == {NoDate, Dt(6, 0, FALSE)}

NoRegex == [subject_re |-> None, body_re |-> None, from_re |-> None]

RegexCfgs ==
    {NoRegex,
     [subject_re |-> <<"i", "n", "v">>, body_re |-> <<"u", "r", "g">>, from_re |-> None],
     [subject_re |-> None, body_re |-> None, from_re |-> <<"U", "@">>]}

Cfg(protocol, include_seen, uidl, limit, sort, random_pick, since, before, re, mode) ==
    [protocol |-> protocol, include_seen |-> include_seen, uidl |-> uidl,
     limit |-> limit, sort |-> sort, random_pick |-> random_pick,
     date_since |-> since, date_before |-> before,
     subject_re |-> re.subject_re, body_re |-> re.body_re, from_re |-> re.from_re,
     regex_mode |-> mode]

\* Not yet enumerated.
SelStart ==
    /\ RunIdle
    /\ pc = "start"
    /\ ordered = <<>>
    /\ cut = <<>>
    /\ refs = <<>>
    /\ searches = <<>>
    /\ pop3_sent = <<>>
    /\ k = 0
    /\ since_dt = NoDate
    /\ before_dt = NoDate
    /\ fetched = <<>>
    /\ results = <<>>
    /\ fr_in = <<>>
    /\ fr_out = <<>>
    /\ CallIdle

\* Selections with filters: default enumeration arguments (limit -1, unseen
\* only, UIDL supported), every date and regex configuration.
Init ==
    /\ mailbox \in Mailboxes
    /\ cfg \in {Cfg(p, FALSE, TRUE, -1, s, r, ds, db, re, m) :
                  p \in {"imap", "pop3"}, s \in Sorts, r \in BOOLEAN,
                  ds \in Sinces, db \in Befores, re \in RegexCfgs, m \in RegexModes}
    /\ SelStart

\* Enumerator runs: every limit, sort, random_pick, seen selector and listing
\* command, no filter.
InitEnum ==
    /\ mailbox \in Mailboxes
    /\ cfg \in {Cfg(pv[1], pv[2], pv[3], l, s, r, NoDate, NoDate, NoRegex, m) :
                  pv \in {<<"imap", FALSE, TRUE>>, <<"imap", TRUE, TRUE>>,
                          <<"pop3", FALSE, TRUE>>, <<"pop3", FALSE, FALSE>>},
                  l \in -1..MaxLimit, s \in Sorts, r \in BOOLEAN, m \in RegexModes}
    /\ SelStart

------------------------------------------------------------------------------
\* The selection, step by step

frVars == <<fr_in, fr_out>>

\* select_messages_imap up to the loop: select INBOX, enumerate.
EnumerateImap ==
    /\ pc = "start"
    /\ cfg.protocol = "imap"
    /\ searches' = Append(searches,
                          imap_query(cfg.include_seen, cfg.date_since, cfg.date_before))
    /\ \E o \in fetch_message_ids_imap(
                  ImapSearch(mailbox, cfg.include_seen, cfg.date_since, cfg.date_before),
                  cfg.limit, cfg.sort, cfg.random_pick) :
          /\ ordered' = o.ordered
          /\ cut' = o.cut
          /\ refs' = o.refs
          /\ pc' = IF o.raised THEN "raised"
                   ELSE IF o.refs = <<>> THEN "done" ELSE "fetch"
    /\ UNCHANGED <<cfg, mailbox, k, since_dt, before_dt, fetched, results, pop3_sent,
                   frVars, callVars, runVars>>

\* select_messages_pop3 up to the loop: enumerate, parse the date bounds.
EnumeratePop3 ==
    /\ pc = "start"
    /\ cfg.protocol = "pop3"
    /\ \E o \in fetch_message_ids_pop3(Pop3Listing(mailbox, cfg.uidl),
                                       cfg.limit, cfg.sort, cfg.random_pick) :
          /\ ordered' = o.ordered
          /\ cut' = o.cut
          /\ refs' = o.refs
          /\ pc' = IF o.refs = <<>> THEN "done" ELSE "fetch"
          /\ since_dt' = IF o.refs = <<>> THEN since_dt ELSE cfg.date_since
          /\ before_dt' = IF o.refs = <<>> THEN before_dt ELSE cfg.date_before
    /\ pop3_sent' = pop3_sent \o Pop3ListingCommands(cfg.uidl)
    /\ UNCHANGED <<cfg, mailbox, k, fetched, results, searches,
                   frVars, callVars, runVars>>

\* One IMAP loop iteration whose FETCH answers OK.
FetchImap ==
    /\ pc = "fetch"
    /\ cfg.protocol = "imap"
    /\ k < Len(refs)
    /\ LET mid == refs[k + 1]
           msg == mailbox[mid]
       IN  /\ fetched' = Append(fetched, mid)
           /\ results' = IF PassesRegex(msg) THEN Append(results, Record(mid, msg))
                         ELSE results
    /\ k' = k + 1
    /\ UNCHANGED <<cfg, mailbox, pc, ordered, cut, refs, since_dt, before_dt, searches, pop3_sent,
                   frVars, callVars, runVars>>

\* One IMAP loop iteration whose FETCH answers with another status: skipped.
FetchImapNotOk ==
    /\ pc = "fetch"
    /\ cfg.protocol = "imap"
    /\ k < Len(refs)
    /\ k - Len(fetched) < MaxFails
    /\ k' = k + 1
    /\ UNCHANGED <<cfg, mailbox, pc, ordered, cut, refs, since_dt, before_dt,
                   fetched, results, searches, pop3_sent,
                   frVars, callVars, runVars>>

\* One IMAP loop iteration whose FETCH raises: nothing catches it.
FetchImapRaise ==
    /\ pc = "fetch"
    /\ cfg.protocol = "imap"
    /\ k < Len(refs)
    /\ k - Len(fetched) < MaxFails
    /\ pc' = "raised"
    /\ UNCHANGED <<cfg, mailbox, ordered, cut, refs, k, since_dt, before_dt,
                   fetched, results, searches, pop3_sent,
                   frVars, callVars, runVars>>

\* One POP3 loop iteration whose RETR succeeds.
RetrPop3 ==
    /\ pc = "fetch"
    /\ cfg.protocol = "pop3"
    /\ k < Len(refs)
    /\ LET ref == refs[k + 1]
           msg == mailbox[ref.index]
           ds == Pop3DateStage(msg.date, since_dt, before_dt)
       IN  /\ fetched' = Append(fetched, ref.index)
           /\ since_dt' = ds.since
           /\ before_dt' = ds.before
           /\ results' = IF ~ds.skip /\ PassesRegex(msg)
                         THEN Append(results, Record(ref.uid, msg))
                         ELSE results
           /\ pop3_sent' = Append(pop3_sent, Cmd("RETR", ref.index))
    /\ k' = k + 1
    /\ UNCHANGED <<cfg, mailbox, pc, ordered, cut, refs, searches,
                   frVars, callVars, runVars>>

\* One POP3 loop iteration whose RETR raises: caught, logged, skipped.
RetrPop3Fail ==
    /\ pc = "fetch"
    /\ cfg.protocol = "pop3"
    /\ k < Len(refs)
    /\ k - Len(fetched) < MaxFails
    /\ pop3_sent' = Append(pop3_sent, Cmd("RETR", refs[k + 1].index))
    /\ k' = k + 1
    /\ UNCHANGED <<cfg, mailbox, pc, ordered, cut, refs, since_dt, before_dt,
                   fetched, results, searches,
                   frVars, callVars, runVars>>

\* The loop is over: return results.
Return ==
    /\ pc = "fetch"
    /\ k = Len(refs)
    /\ pc' = "done"
    /\ UNCHANGED <<cfg, mailbox, ordered, cut, refs, k, since_dt, before_dt,
                   fetched, results, searches, pop3_sent,
                   frVars, callVars, runVars>>

Next ==
    \/ EnumerateImap
    \/ EnumeratePop3
    \/ FetchImap
    \/ FetchImapNotOk
    \/ FetchImapRaise
    \/ RetrPop3
    \/ RetrPop3Fail
    \/ Return

Spec == Init /\ [][Next]_vars

SpecEnum == InitEnum /\ [][Next]_vars

------------------------------------------------------------------------------
\* extract_body_from_msg as a function of the message

PlainBody == MimePart("text/plain", "none", TxtPay)
HtmlInline == MimePart("text/html", "inline", TxtUrg)
PlainAttached == MimePart("text/plain", "attachment", TxtInv4)
PdfAttached == MimePart("application/pdf", "attachment", <<"%", "P">>)
PlainUnknownCharset == MimePart("text/plain", "none", BadCharset)

LeafParts == {PlainBody, HtmlInline, PlainAttached, PdfAttached, PlainUnknownCharset}

\* Most parts directly below the message.
MaxParts == 2

\* Containers nested in a message: one or two parts, a part being a leaf or a
\* container itself.
NestedParts ==
    LET inner == {PlainBody, PlainAttached, PdfAttached,
                  Multipart("multipart/related", <<HtmlInline>>)}
    IN  {Multipart("multipart/alternative", ps) :
            ps \in [1..1 -> inner] \cup [1..2 -> inner]}

\* Parsed messages: one part, or multipart with parts nested up to three deep.
BodyMsgs ==
    {[multipart |-> FALSE, parts |-> <<p>>] : p \in LeafParts}
    \cup {[multipart |-> TRUE, parts |-> ps] :
            ps \in UNION {[1..n -> LeafParts \cup NestedParts] : n \in 1..MaxParts}}

InitBody ==
    /\ eb_in \in BodyMsgs
    /\ eb_out = <<>>
    /\ pa_in = <<>>
    /\ pa_out = <<>>
    /\ sm_in = <<>>
    /\ sm_out = <<>>
    /\ fr_in = <<>>
    /\ fr_out = <<>>
    /\ SelIdle

\* One call of extract_body_from_msg.
ExtractCall ==
    /\ eb_out = <<>>
    /\ eb_out' = <<extract_body_from_msg(eb_in)>>
    /\ UNCHANGED <<eb_in, pa_in, pa_out, sm_in, sm_out, frVars, selVars, runVars>>

NextBody == ExtractCall

SpecBody == InitBody /\ [][NextBody]_vars

------------------------------------------------------------------------------
\* perform_actions_on_message

\* The values of --action.
ActionNames == {"navigate", "download-attachments", "download-mail", "exec", "open"}

\* What can go wrong while one action runs: nothing; os.makedirs(download_dir)
\* raises; every write, browser or process start of the action raises.
FailKinds == {"none", "makedirs", "io"}

\* re.findall(r"https?://[^\s\"'<>]+", body): a URL is one element of a text.
Urls == {"http://a", "https://b"}

findall_links(text) == SelectSeq(text, LAMBDA c : c \in Urls)

\* The elements of s in first-seen order, each once.
RECURSIVE Dedup(_)
Dedup(s) ==
    IF s = <<>> THEN <<>>
    ELSE LET r == Dedup(SubSeq(s, 1, Len(s) - 1))
         IN  IF s[Len(s)] \in Range(r) THEN r ELSE Append(r, s[Len(s)])

\* One side effect outside the process.
Effect(kind, target) == [kind |-> kind, target |-> target]

\* One entry of result["performed"].
Entry(key, value) == [key |-> key, value |-> value]

\* What the body of one action does: whether it raises, what it returns and
\* the side effects it had by then.
Outcome(raises, value, effects) ==
    [raises |-> raises, value |-> value, effects |-> effects]

\* click_links_in_body: each distinct link is listed, then opened; a failing
\* webbrowser.open is logged.
click_links_in_body(body, fail) ==
    LET links == Dedup(findall_links(BodyText(body)))
    IN  Outcome(FALSE, links,
                IF fail = "io" THEN <<>>
                ELSE [i \in DOMAIN links |-> Effect("browser", links[i])])

\* The path a part is saved at, named after its payload.
SavedPath(p) == <<"download_dir/">> \o p.text

\* The parts download_attachment saves (the model's messages carry a file name
\* on their attachments only).
Attachments(msg) ==
    SelectSeq(IF msg.multipart THEN walk(msg.parts) ELSE msg.parts,
              LAMBDA p : ~is_multipart(p) /\ p.dispo = "attachment")

\* download_attachment: makedirs, then one write per attachment; a failing
\* write is logged and the file left out.
download_attachment(msg, fail) ==
    LET paths == [i \in DOMAIN Attachments(msg) |-> SavedPath(Attachments(msg)[i])]
        saved == IF fail = "io" THEN <<>> ELSE paths
    IN  IF fail = "makedirs" THEN Outcome(TRUE, <<>>, <<>>)
        ELSE Outcome(FALSE, saved,
                     <<Effect("makedirs", "download_dir")>>
                     \o [i \in DOMAIN saved |-> Effect("write", saved[i])])

\* save_full_email: makedirs, then the .eml write; a failing write is raised again.
save_full_email(msg, subject, fail) ==
    LET path == <<"download_dir/">> \o subject \o <<".eml">>
    IN  IF fail = "makedirs" THEN Outcome(TRUE, <<>>, <<>>)
        ELSE IF fail = "io"
             THEN Outcome(TRUE, <<>>, <<Effect("makedirs", "download_dir")>>)
             ELSE Outcome(FALSE, path, <<Effect("makedirs", "download_dir"),
                                         Effect("write", path)>>)

\* execute_files / open_with_default: one process per file; a failing start is
\* logged.
StartEach(kind, filepaths, fail) ==
    IF fail = "io" THEN <<>>
    ELSE [i \in DOMAIN filepaths |-> Effect(kind, filepaths[i])]

\* The branch of the try block for one action: the entries appended to
\* result["performed"] (none when it raises or the action is unknown).
ActionBody(act, rec, fail) ==
    LET dl == download_attachment(rec.raw_msg, fail)
    IN  CASE act = "navigate" ->
               LET o == click_links_in_body(rec.body, fail)
               IN  Outcome(FALSE, <<Entry("navigated_links", o.value)>>, o.effects)
          [] act = "download-attachments" ->
               Outcome(dl.raises,
                       IF dl.raises THEN <<>> ELSE <<Entry("downloaded", dl.value)>>,
                       dl.effects)
          [] act = "download-mail" ->
               LET o == save_full_email(rec.raw_msg, rec.subject, fail)
               IN  Outcome(o.raises,
                           IF o.raises THEN <<>> ELSE <<Entry("saved_mail", o.value)>>,
                           o.effects)
          [] act = "exec" ->
               Outcome(dl.raises,
                       IF dl.raises THEN <<>> ELSE <<Entry("executed", dl.value)>>,
                       dl.effects \o StartEach("subprocess", dl.value, fail))
          [] act = "open" ->
               Outcome(dl.raises,
                       IF dl.raises THEN <<>> ELSE <<Entry("opened", dl.value)>>,
                       dl.effects \o StartEach("xdg-open", dl.value, fail))
          [] OTHER -> Outcome(FALSE, <<>>, <<>>)

\* One line of what the loop did with an action.
Attempt(act, o) ==
    [act |-> act,
     outcome |-> IF o.raises THEN "raised"
                 ELSE IF act \in ActionNames THEN "done" ELSE "unknown"]

\* A plausible slip: no try/except around the action, the exception leaves the call.
TryAction_reraise(acc, act, o) ==
    [performed |-> acc.performed \o o.value,
     attempts |-> Append(acc.attempts, Attempt(act, o)),
     effects |-> acc.effects \o o.effects,
     raised |-> o.raises]

\* The try/except of the loop body: a raising action is logged, nothing leaves.
TryAction(acc, act, o) ==
    [performed |-> acc.performed \o o.value,
     attempts |-> Append(acc.attempts, Attempt(act, o)),
     effects |-> acc.effects \o o.effects,
     raised |-> FALSE]

\* for act in chosen_actions: ...; an exception that leaves the body ends the loop.
RECURSIVE RunActions(_, _, _, _)
RunActions(chosen, rec, fails, acc) ==
    IF chosen = <<>> \/ acc.raised THEN acc
    ELSE RunActions(Tail(chosen), rec, Tail(fails),
                    TryAction(acc, Head(chosen),
                              ActionBody(Head(chosen), rec, Head(fails))))

\* A plausible slip: random mode ignored.
chosen_actions_all(actions, action_mode, pick) == actions

\* chosen_actions; pick is the index random.choice draws.
chosen_actions(actions, action_mode, pick) ==
    IF action_mode = "all" \/ actions = <<>> THEN actions ELSE <<actions[pick]>>

\* The result before any action.
NoActionDone == [performed |-> <<>>, attempts |-> <<>>, effects |-> <<>>, raised |-> FALSE]

\* A plausible slip: the download directory is made before the actions are looked at.
perform_actions_on_message_makedirs_first(rec, actions, action_mode, pick, fails) ==
    RunActions(chosen_actions(actions, action_mode, pick), rec, fails,
               [NoActionDone EXCEPT !.effects = <<Effect("makedirs", "download_dir")>>])

\* perform_actions_on_message: performed, with what was attempted, the side
\* effects, and whether the call raised.
perform_actions_on_message(rec, actions, action_mode, pick, fails) ==
    IF actions = <<>> THEN NoActionDone
    ELSE RunActions(chosen_actions(actions, action_mode, pick), rec, fails, NoActionDone)

\* Longest --action list.
MaxActions == 2

\* A message with links (one of them twice) and attachments, and one with neither.
ActionMsgs ==
    {[uid |-> "a1", date |-> Dt(0, 0, FALSE), internal |-> 0, seen |-> FALSE,
      subject |-> TxtPay, from |-> AddrU, to |-> AddrI, multipart |-> TRUE,
      parts |-> <<MimePart("text/plain", "none",
                           <<"http://a", " ", "https://b", " ", "http://a">>),
                  PdfAttached, PlainAttached>>],
     Catalog[2]}

ActionLists == UNION {[1..n -> ActionNames \cup {"print"}] : n \in 0..MaxActions}

ActionModes == {"all", "random"}

InitActions ==
    /\ pa_in \in [rec : {Record(m.uid, m) : m \in ActionMsgs},
                  actions : ActionLists, action_mode : ActionModes]
    /\ pa_out = <<>>
    /\ eb_in = <<>>
    /\ eb_out = <<>>
    /\ sm_in = <<>>
    /\ sm_out = <<>>
    /\ fr_in = <<>>
    /\ fr_out = <<>>
    /\ SelIdle

\* One call of perform_actions_on_message: random.choice draws pick, the
\* environment decides what fails.
PerformCall ==
    /\ pa_out = <<>>
    /\ \E pick \in 1..(IF pa_in.actions = <<>> THEN 1 ELSE Len(pa_in.actions)) :
       \E fails \in [1..Len(chosen_actions(pa_in.actions, pa_in.action_mode, pick))
                     -> FailKinds] :
          pa_out' = <<[chosen |-> chosen_actions(pa_in.actions, pa_in.action_mode, pick),
                       result |-> perform_actions_on_message(
                                     pa_in.rec, pa_in.actions, pa_in.action_mode,
                                     pick, fails)]>>
    /\ UNCHANGED <<pa_in, eb_in, eb_out, sm_in, sm_out, frVars, selVars, runVars>>

NextActions == PerformCall

SpecActions == InitActions /\ [][NextActions]_vars

------------------------------------------------------------------------------
\* connect_mail

\* The values of --mail-security.
Securities == {"none", "starttls", "ssl"}

\* create_ssl_context: the default context, verifying unless allow_insecure.
create_ssl_context(allow_insecure) ==
    IF allow_insecure THEN SslContext(FALSE, "CERT_NONE")
    ELSE SslContext(TRUE, "CERT_REQUIRED")

\* The context poplib.POP3_SSL makes for itself when it is given none
\* (ssl._create_stdlib_context): no host name check, no certificate check.
PoplibOwnContext == SslContext(FALSE, "CERT_NONE")

\* What the network and the server make of a connection attempt: accepted;
\* connection refused; TLS handshake failed; credentials rejected.
ConnectOutcomes(security) ==
    {"ok", "refused", "auth"} \cup (IF security = "none" THEN {} ELSE {"tls"})

\* connect_mail returns (mail, protocol).
Connected(tls, sent) ==
    [raised |-> FALSE, client |-> [state |-> "open", tls |-> tls], wire |-> sent]

\* connect_mail raises: the caller gets no client.
ConnectRaised(sent) == [raised |-> TRUE, client |-> NoClient, wire |-> sent]

\* connect_mail: the TLS context each branch hands to the library, then the
\* login commands; every failure is raised to the caller.
connect_mail(config, protocol, outcome) ==
    LET context == create_ssl_context(config.allow_insecure_tls)
    IN  CASE protocol = "imap" ->
               LET tls == IF config.security = "ssl" THEN context
                          ELSE IF config.security = "starttls" THEN context
                          ELSE NoTls
               IN  IF outcome \in {"refused", "tls"} THEN ConnectRaised(<<>>)
                   ELSE IF outcome = "auth" THEN ConnectRaised(<<Cmd("LOGIN", 0)>>)
                   ELSE Connected(tls, <<Cmd("LOGIN", 0), Cmd("SELECT", 0)>>)
          [] protocol = "pop3" ->
               LET tls == IF config.security = "ssl" THEN PoplibOwnContext
                          ELSE IF config.security = "starttls" THEN context
                          ELSE NoTls
               IN  IF outcome \in {"refused", "tls"} THEN ConnectRaised(<<>>)
                   ELSE IF outcome = "auth"
                        THEN ConnectRaised(<<Cmd("USER", 0), Cmd("PASS", 0)>>)
                   ELSE Connected(tls, <<Cmd("USER", 0), Cmd("PASS", 0)>>)
          [] OTHER -> ConnectRaised(<<>>)

------------------------------------------------------------------------------
\* read_emails

\* The selection variables a read_emails step outside the selection leaves alone.
selLocals == <<cfg, mailbox, ordered, cut, refs, searches, pop3_sent, k, since_dt, before_dt, fetched, results>>

\* read_emails up to the selection: connect, give up when no client came back.
ConnectMail ==
    /\ rpc = "connect"
    /\ \E outcome \in ConnectOutcomes(mail_config.security) :
          LET c == connect_mail(mail_config, cfg.protocol, outcome)
              next == IF c.raised THEN "raised"
                      ELSE IF c.client = NoClient /\ cfg.protocol # "api" THEN "exited"
                      ELSE "select"
          IN  /\ client' = c.client
              /\ wire' = wire \o c.wire
              /\ rpc' = next
              /\ pc' = IF next = "select" THEN "start" ELSE pc
    /\ UNCHANGED <<selLocals, frVars, callVars, mail_config, args, processed,
                   results_all, trace, cpc, outbox>>

\* An exception of the selection leaves read_emails: nothing catches it.
Propagate ==
    /\ rpc = "select"
    /\ pc = "raised"
    /\ rpc' = "raised"
    /\ UNCHANGED <<selVars, frVars, callVars, mail_config, args, client, wire,
                   processed, results_all, trace, cpc, outbox>>

\* int(record["id"]): <<n>>, or <<>> when it raises ValueError (an id that is
\* not a number, as the "msg-<index>" made up without UIDL).
int_of_id(id) ==
    IF ~cfg.uidl THEN <<>>
    ELSE CASE id = "1" -> <<1>>
           [] id = "2" -> <<2>>
           [] OTHER -> <<>>

\* The DELE sent for a record: none when int() raises.
DeleCommands(rec) ==
    IF int_of_id(rec.id) = <<>> THEN <<>>
    ELSE <<Cmd("DELE", int_of_id(rec.id)[1] + 1)>>

\* One line of the record loop: the action or the delete done for record n.
Step(n, what, fail) == [rec |-> n, what |-> what, fail |-> fail]

\* The failures the environment has caused in the pass so far: fetches that
\* failed, actions that met a failure.
FailedSteps ==
    (k - Len(fetched)) + Cardinality({i \in DOMAIN trace : trace[i].fail # "none"})

\* A plausible slip: the action result appended in place of the record.
WithActions_action_result(rec, performed) ==
    [f \in {"id", "date", "subject", "from", "to", "actions"} |->
        IF f = "actions" THEN performed ELSE rec[f]]

\* {**record, "actions": performed}
WithActions(rec, performed) ==
    [f \in DOMAIN rec \cup {"actions"} |->
        IF f = "actions" THEN performed ELSE rec[f]]

\* A plausible slip: the message is deleted before its actions run.
RecordSteps_delete_first(n, attempts, fails, dele) ==
    (IF dele THEN <<Step(n, "dele", "none")>> ELSE <<>>)
    \o [i \in DOMAIN attempts |-> Step(n, attempts[i].act, fails[i])]

\* What the loop body does for record n, in order: each action attempted,
\* then the delete.
RecordSteps(n, attempts, fails, dele) ==
    [i \in DOMAIN attempts |-> Step(n, attempts[i].act, fails[i])]
    \o (IF dele THEN <<Step(n, "dele", "none")>> ELSE <<>>)

\* One iteration of the record loop: the actions of the record, then the
\* POP3 delete when asked for.
ProcessRecord ==
    /\ rpc = "select"
    /\ pc = "done"
    /\ processed < Len(results)
    /\ LET rec == results[processed + 1]
           n == processed + 1
           dele == cfg.protocol = "pop3" /\ args.pop3_delete
       IN  \E pick \in 1..(IF args.actions = <<>> THEN 1 ELSE Len(args.actions)) :
           \E fails \in [1..Len(chosen_actions(args.actions, args.action_mode, pick))
                         -> FailKinds] :
              LET r == perform_actions_on_message(rec, args.actions, args.action_mode,
                                                  pick, fails)
              IN  /\ FailedSteps + Cardinality({i \in DOMAIN fails : fails[i] # "none"})
                        <= MaxFails
                  /\ results_all' = Append(results_all, WithActions(rec, r.performed))
                  /\ trace' = trace \o RecordSteps(n, r.attempts, fails, dele)
                  /\ wire' = IF dele THEN wire \o DeleCommands(rec) ELSE wire
                  /\ rpc' = IF r.raised THEN "raised" ELSE rpc
    /\ processed' = processed + 1
    /\ UNCHANGED <<selVars, frVars, callVars, mail_config, args, client, cpc, outbox>>

\* What the cleanup block did: the commands sent, the state the session is
\* left in, and whether an exception left the block.
CleanupOutcome(sent, state, raised) == [wire |-> sent, state |-> state, raised |-> raised]

\* The session after IMAP close and logout.
ImapEndState(close_ok, bye_ok) ==
    IF close_ok /\ bye_ok THEN "closed"
    ELSE IF bye_ok THEN "close failed"
    ELSE IF close_ok THEN "logout failed"
    ELSE "close and logout failed"

\* A plausible slip: the outer try left out, a failing logout leaves read_emails.
cleanup_logout_unguarded(protocol, close_ok, bye_ok) ==
    CASE protocol = "imap" ->
           CleanupOutcome(<<Cmd("CLOSE", 0), Cmd("LOGOUT", 0)>>,
                          ImapEndState(close_ok, bye_ok), ~bye_ok)
      [] protocol = "pop3" ->
           CleanupOutcome(<<Cmd("QUIT", 0)>>,
                          IF bye_ok THEN "closed" ELSE "quit failed", FALSE)
      [] OTHER -> CleanupOutcome(<<>>, "open", FALSE)

\* The cleanup block: IMAP close in its own try, then logout under the outer
\* try; POP3 quit in its own try.  Every failure is logged.
cleanup(protocol, close_ok, bye_ok) ==
    CASE protocol = "imap" ->
           CleanupOutcome(<<Cmd("CLOSE", 0), Cmd("LOGOUT", 0)>>,
                          ImapEndState(close_ok, bye_ok), FALSE)
      [] protocol = "pop3" ->
           CleanupOutcome(<<Cmd("QUIT", 0)>>,
                          IF bye_ok THEN "closed" ELSE "quit failed", FALSE)
      [] OTHER -> CleanupOutcome(<<>>, "open", FALSE)

\* Cleanup and return results_all; the server decides which steps fail.
Cleanup ==
    /\ rpc = "select"
    /\ pc = "done"
    /\ processed = Len(results)
    /\ \E close_ok, bye_ok \in BOOLEAN :
          LET c == cleanup(cfg.protocol, close_ok, bye_ok)
          IN  /\ client' = [client EXCEPT !.state = c.state]
              /\ wire' = wire \o c.wire
              /\ rpc' = IF c.raised THEN "raised" ELSE "returned"
    /\ UNCHANGED <<selVars, frVars, callVars, mail_config, args, processed,
                   results_all, trace, cpc, outbox>>

NextRead ==
    \/ ConnectMail
    \/ Next
    \/ Propagate
    \/ ProcessRecord
    \/ Cleanup

------------------------------------------------------------------------------
\* read_emails passes and the commands around them

\* The --action lists of the passes.
ReadActionLists == {<<"download-mail", "navigate">>}

\* Nothing enumerated, nothing called, read_emails about to connect.
ReadStart ==
    /\ pc = "idle"
    /\ ordered = <<>>
    /\ cut = <<>>
    /\ refs = <<>>
    /\ searches = <<>>
    /\ pop3_sent = <<>>
    /\ k = 0
    /\ since_dt = NoDate
    /\ before_dt = NoDate
    /\ fetched = <<>>
    /\ results = <<>>
    /\ fr_in = <<>>
    /\ fr_out = <<>>
    /\ CallIdle
    /\ client = NoClient
    /\ wire = <<>>
    /\ rpc = "connect"
    /\ processed = 0
    /\ results_all = <<>>
    /\ trace = <<>>
    /\ outbox = <<>>

\* The action arguments of the passes: no action, the list in either mode.
ReadArgs ==
    {[command |-> "read_emails", actions |-> am[1], action_mode |-> am[2],
      pop3_delete |-> d] :
        am \in {<<<<>>, "all">>} \cup (ReadActionLists \X ActionModes),
        d \in BOOLEAN}

\* The mailboxes of the passes: made of the first four catalog messages, two
\* of them with a numeric uid.
ReadMailboxes ==
    {BoxOf(S) : S \in {T \in SUBSET (1..4) : Cardinality(T) <= MaxMsgs}}

\* read_emails called directly: both sorts, no filter, a plain connection;
\* IMAP with and without --random, POP3 with and without UIDL.
InitRead ==
    /\ mailbox \in ReadMailboxes
    /\ cfg \in {Cfg(pv[1], FALSE, pv[2], -1, s, pv[3], NoDate, NoDate, NoRegex, "all") :
                  pv \in {<<"imap", TRUE, FALSE>>, <<"imap", TRUE, TRUE>>,
                          <<"pop3", TRUE, FALSE>>, <<"pop3", FALSE, FALSE>>},
                  s \in Sorts}
    /\ mail_config = [security |-> "none", allow_insecure_tls |-> FALSE]
    /\ args \in ReadArgs
    /\ cpc = "idle"
    /\ ReadStart

SpecRead == InitRead /\ [][NextRead]_vars

\* read_email_cli, and reply_email_cli / forward_email_cli with nothing to
\* reply to or forward: return.
CommandReturn ==
    /\ cpc = "reading"
    /\ rpc = "returned"
    /\ args.command = "read" \/ results_all = <<>>
    /\ cpc' = "returned"
    /\ UNCHANGED <<selVars, frVars, callVars, mail_config, args, client, wire, rpc,
                   processed, results_all, trace, outbox>>

\* reply_email_cli / forward_email_cli with messages (recipients given): one
\* message built and sent per record; a failure for one record is logged.
ReplyForward ==
    /\ cpc = "reading"
    /\ rpc = "returned"
    /\ args.command \in {"reply", "forward"}
    /\ results_all # <<>>
    /\ \E sent \in SUBSET DOMAIN results_all :
          outbox' = LET ok == SelectSeq([i \in DOMAIN results_all |-> i],
                                         LAMBDA i : i \in sent)
                    IN  [i \in DOMAIN ok |->
                            [command |-> args.command, id |-> results_all[ok[i]].id]]
    /\ cpc' = "returned"
    /\ UNCHANGED <<selVars, frVars, callVars, mail_config, args, client, wire, rpc,
                   processed, results_all, trace>>

\* read_emails raised (or exited): nothing in the command catches it.
CommandRaised ==
    /\ cpc = "reading"
    /\ rpc \in {"raised", "exited"}
    /\ cpc' = "raised"
    /\ UNCHANGED <<selVars, frVars, callVars, mail_config, args, client, wire, rpc,
                   processed, results_all, trace, outbox>>

NextCmd ==
    \/ NextRead
    \/ CommandReturn
    \/ ReplyForward
    \/ CommandRaised

\* Largest mailbox of the command runs.
MaxCmdMsgs == 1

\* The --mail-protocol values.
Protocols == {"imap", "pop3", "mailpit"}

\* The parsed command line of a command, as far as the actions go: --action,
\* --action-mode and --pop3-delete, which all three commands register.
Namespaces ==
    [action : {<<>>, <<"navigate">>}, action_mode : ActionModes, pop3_delete : BOOLEAN]

\* The keyword arguments each command hands to read_emails: read and forward
\* pass the three on; reply passes none of them, so read_emails takes its
\* defaults (actions None, action_mode "all", pop3_delete False).
read_emails_kwargs(command, ns) ==
    IF command = "reply"
    THEN [actions |-> <<>>, action_mode |-> "all", pop3_delete |-> FALSE]
    ELSE [actions |-> ns.action, action_mode |-> ns.action_mode,
          pop3_delete |-> ns.pop3_delete]

\* A command with its command line (cli) and what read_emails gets from it.
CommandArgs ==
    {[command |-> c, cli |-> ns,
      actions |-> read_emails_kwargs(c, ns).actions,
      action_mode |-> read_emails_kwargs(c, ns).action_mode,
      pop3_delete |-> read_emails_kwargs(c, ns).pop3_delete] :
        c \in {"read", "reply", "forward"}, ns \in Namespaces}

\* The three commands on small mailboxes: every protocol, security and
\* allow_insecure_tls.
InitCmd ==
    /\ mailbox \in {b \in Mailboxes : Len(b) <= MaxCmdMsgs}
    /\ cfg \in {Cfg(p, FALSE, TRUE, -1, "oldest", FALSE, NoDate, NoDate, NoRegex, "all") :
                  p \in Protocols}
    /\ mail_config \in [security : Securities, allow_insecure_tls : BOOLEAN]
    /\ args \in CommandArgs
    /\ cpc = "reading"
    /\ ReadStart

SpecCmd == InitCmd /\ [][NextCmd]_vars

------------------------------------------------------------------------------
\* IMAP selections with every seen selector and date bound

NextImap ==
    \/ EnumerateImap
    \/ FetchImap
    \/ FetchImapNotOk
    \/ FetchImapRaise
    \/ Return

\* select_messages_imap on every mailbox: with and without --include-seen,
\* every date bound, both sorts, no regex, no limit.
InitImap ==
    /\ mailbox \in Mailboxes
    /\ cfg \in {Cfg("imap", seen, TRUE, -1, s, FALSE, ds, db, NoRegex, "all") :
                  seen \in BOOLEAN, s \in Sorts, ds \in Sinces, db \in Befores}
    /\ SelStart

SpecImap == InitImap /\ [][NextImap]_vars

------------------------------------------------------------------------------
\* build_email_message, and the reply, forward and send calls that use it

\* sep.join(texts)
RECURSIVE JoinWith(_, _)
JoinWith(sep, texts) ==
    IF texts = <<>> THEN <<>>
    ELSE IF Len(texts) = 1 THEN texts[1]
    ELSE texts[1] \o sep \o JoinWith(sep, Tail(texts))

\* str.lower() of a text.
LowerText(t) == [i \in DOMAIN t |-> Lower(t[i])]

\* text.startswith(prefix)
StartsWith(text, prefix) ==
    Len(text) >= Len(prefix) /\ SubSeq(text, 1, Len(prefix)) = prefix

\* What list.extend(s) appends when s is a str: one string per character.
Chars(s) == [i \in DOMAIN s |-> <<s[i]>>]

\* list({a.lower(): a for a in addrs}.values()): one address per lower-cased
\* key, the keys in first-seen order, each with the last address that has it.
DedupLower(addrs) ==
    LET keys == Dedup([i \in DOMAIN addrs |-> LowerText(addrs[i])])
        last(key) ==
            CHOOSE i \in DOMAIN addrs :
                /\ LowerText(addrs[i]) = key
                /\ \A j \in DOMAIN addrs : LowerText(addrs[j]) = key => j <= i
    IN  [i \in DOMAIN keys |-> addrs[last(keys[i])]]

\* The values of a --body-file argument: not given, a file that can be read,
\* a file that cannot.
BodyFiles == {"none", "readable", "missing"}

\* The text of the readable body file.
FileText == <<"f", "i", "l", "e">>

\* The templates of --template (one stands for all), "none" when not given.
Templates == {"none", "mail_2"}

TemplateSubject == <<"t", "s">>
TemplateBody == <<"t", "b">>

\* Python truthiness of a body argument: None, "" and [] are falsy.
BodyTruthy(body) == IF body.isList THEN body.parts # <<>> ELSE Truthy(body.text)

\* The outcome of building a message: msg is <<the message>>, or <<>> when
\* the call raised.
Built(raised, msg) == [raised |-> raised, msg |-> msg]

\* MIMEText(mail_body, "html"): <<the payload>>; the constructor calls
\* mail_body.encode, so anything but a str raises AttributeError (<<>>).
MIMEText(mail_body) ==
    IF mail_body.isList THEN <<>> ELSE <<mail_body.text>>

\* build_email_message (no inline images, template_params None): the headers,
\* the template, the choice of mail_body, then MIMEText; a body file that
\* cannot be read raises IOError.
build_email_message(sender, destination, subject, body, body_file, attachments, cc, template_name) ==
    LET subj == IF template_name # "none" /\ ~Truthy(subject)
                THEN TemplateSubject ELSE subject
        b == IF template_name # "none" THEN StrBody(TemplateBody) ELSE body
        mail_body == IF ~b.isList /\ b.text = None /\ body_file = "none" THEN StrBody(<<>>)
                     ELSE IF body_file # "none" THEN StrBody(FileText)
                     ELSE IF BodyTruthy(b) THEN b
                     ELSE StrBody(<<>>)
    IN  IF body_file = "missing" \/ MIMEText(mail_body) = <<>> THEN Built(TRUE, <<>>)
        ELSE Built(FALSE,
                   <<[From |-> sender,
                      To |-> JoinWith(<<", ">>, destination),
                      Cc |-> JoinWith(<<", ">>, cc),
                      Subject |-> IF Truthy(subj) THEN subj ELSE <<"No Subject">>,
                      body |-> MIMEText(mail_body)[1],
                      attachments |-> attachments]>>)

\* What a reply, forward or send call did: whether it raised, the
\* send_prepared_email calls it made, the temporary files it left behind.
Done(raised, sent, files) == [raised |-> raised, sent |-> sent, files |-> files]

\* send_prepared_email(msg, smtp_config, sender, all_recipients): one call;
\* a failing SMTP session is logged and the call returns False.
send_prepared_email(msg, sender, all_recipients, smtp_ok) ==
    [msg |-> msg, sender |-> sender, recipients |-> all_recipients, delivered |-> smtp_ok]

\* The subject of a reply.
reply_subject(subject, orig_subject) ==
    IF Truthy(subject) THEN subject
    ELSE IF StartsWith(LowerText(orig_subject), <<"r", "e", ":">>) THEN orig_subject
    ELSE <<"R", "e", ":", " ">> \o orig_subject

\* new_bodies of reply_email (template_name None): without quoting, one
\* text/html pair with the file text, the --body or ""; with quoting, and an
\* original that has a body, the new pair and the quoted original.
reply_bodies(bodies, body, body_file, no_quote_original) ==
    LET texts == [i \in DOMAIN bodies |-> bodies[i].text]
        has_html == \E i \in DOMAIN bodies : bodies[i].ctype = "text/html"
        quoted == IF has_html
                  THEN Part("text/html",
                            <<"<blockquote>", "wrote:", "<br>">>
                            \o JoinWith(<<"<br>">>, texts) \o <<"</blockquote>">>)
                  ELSE Part("text/plain",
                            JoinWith(<<"\n">>, texts) \o <<"\n\n", "wrote:", "\n">>
                            \o JoinWith(<<"\n">>,
                                        [i \in DOMAIN texts |-> <<"> ">> \o texts[i]]))
    IN  IF no_quote_original
        THEN <<Part("text/html",
                    IF body_file = "readable" THEN FileText
                    ELSE IF body_file = "missing" THEN <<>>
                    ELSE IF Truthy(body) THEN body
                    ELSE <<>>)>>
        ELSE IF bodies = <<>> THEN <<>>
        ELSE <<Part("text/html",
                    IF body_file = "readable" THEN FileText
                    ELSE IF body_file = "missing" THEN <<>>
                    ELSE body),
               quoted>>

\* reply_to_list of reply_email.  A record of the selection has a str under
\* "to" and neither "reply_to" nor "cc"; list.extend takes a str apart.
reply_to_list(rec, sender, reply_to, reply_all) ==
    LET given == "reply_to" \in DOMAIN rec /\ rec.reply_to # <<>>
        origin == IF given THEN rec.reply_to ELSE <<rec.from>>
        all_addrs == origin
                     \o (IF "to" \in DOMAIN rec THEN Chars(rec.to) ELSE <<>>)
                     \o (IF "cc" \in DOMAIN rec THEN rec.cc ELSE <<>>)
                     \o reply_to
    IN  IF reply_all
        THEN SelectSeq(DedupLower(all_addrs),
                       LAMBDA a : LowerText(a) # LowerText(sender))
        ELSE IF reply_to # <<>> THEN reply_to
        ELSE origin

\* reply_email: subject, bodies, recipients, build_email_message,
\* send_prepared_email (the In-Reply-To and References headers are left out).
reply_email(rec, sender, reply_to, subject, body, body_file, cc, bcc, no_quote_original, reply_all, smtp_ok) ==
    LET to_list == reply_to_list(rec, sender, reply_to, reply_all)
        built == build_email_message(
                     sender, to_list, reply_subject(subject, rec.subject),
                     ListBody(reply_bodies(extract_body_from_msg(rec.raw_msg), body,
                                           body_file, no_quote_original)),
                     body_file, <<>>, cc, "none")
    IN  IF built.raised THEN Done(TRUE, <<>>, <<>>)
        ELSE Done(FALSE,
                  <<send_prepared_email(built.msg[1], sender, to_list \o cc \o bcc, smtp_ok)>>,
                  <<>>)

\* The default --subject-prefix.
FwdPrefix == <<"F", "w", "d", ":">>

\* The subject of a forwarded message.
forward_subject(subject, orig_subject) ==
    IF Truthy(subject) THEN subject
    ELSE IF StartsWith(orig_subject, FwdPrefix) THEN orig_subject
    ELSE Strip(FwdPrefix \o <<" ">> \o orig_subject)

\* bodies of an inline forward (template_name None): the original's bodies
\* behind the "Forwarded message" block, behind the file text or the --body
\* when there is one.
forward_bodies(bodies, body, body_file) ==
    LET base == <<Part("text/html", <<"Forwarded message">>)>> \o bodies
    IN  IF body_file = "readable" THEN <<Part("text/html", FileText)>> \o base
        ELSE IF body_file = "missing" THEN base
        ELSE IF Truthy(body) THEN <<Part("text/html", body)>> \o base
        ELSE base

\* The temporary copy of an attachment.
TempPath(p) == <<"tmp/">> \o p.text

\* forward_email: inline, the bodies and the original's attachments go to
\* build_email_message (which is not given the body file); as attachment, the
\* saved .eml does.  Temporary files are removed after the send.
forward_email(rec, sender, to_addresses, subject, body, body_file, cc, bcc, mode, no_attachments, smtp_ok) ==
    LET fwd_subject == forward_subject(subject, rec.subject)
        atts == Attachments(rec.raw_msg)
        forwarded == IF no_attachments THEN <<>>
                     ELSE [i \in DOMAIN atts |-> TempPath(atts[i])]
        filepath == <<"tmp/">> \o rec.subject \o <<".eml">>
        files == IF mode = "inline" THEN forwarded ELSE <<filepath>>
        built == IF mode = "inline"
                 THEN build_email_message(
                          sender, to_addresses, fwd_subject,
                          ListBody(forward_bodies(extract_body_from_msg(rec.raw_msg),
                                                  body, body_file)),
                          "none", forwarded, cc, "none")
                 ELSE build_email_message(sender, to_addresses, fwd_subject,
                                          StrBody(body), body_file, <<filepath>>, cc, "none")
    IN  IF built.raised THEN Done(TRUE, <<>>, files)
        ELSE Done(FALSE,
                  <<send_prepared_email(built.msg[1], sender, to_addresses \o cc \o bcc,
                                        smtp_ok)>>,
                  <<>>)

\* send_email_cli (one message to all recipients): build, then send.
send_email(sender, destination, subject, body, body_file, cc, bcc, template_name, smtp_ok) ==
    LET built == build_email_message(sender, destination, subject, StrBody(body),
                                     body_file, <<>>, cc, template_name)
    IN  IF built.raised THEN Done(TRUE, <<>>, <<>>)
        ELSE Done(FALSE,
                  <<send_prepared_email(built.msg[1], sender, destination \o cc \o bcc,
                                        smtp_ok)>>,
                  <<>>)

AddrX == <<"x", "@", "p">>
AddrUpperU == <<"U", "@", "p">>

\* The originals replied to and forwarded: the first two catalog messages and
\* a reply from U@p whose only part does not decode.
OriginalMsgs ==
    {Catalog[1], Catalog[2],
     [uid |-> "r3", date |-> Dt(2, 0, TRUE), internal |-> 1, seen |-> FALSE,
      subject |-> <<"R", "E", ":", " ">> \o TxtPay, from |-> AddrUpperU, to |-> AddrI,
      multipart |-> FALSE, parts |-> <<PlainUnknownCharset>>]}

\* The arguments the three calls share.
CommonArgs ==
    [sender : {AddrI, AddrU}, to : {<<>>, <<AddrX>>, <<AddrX, AddrU>>},
     subject : {None, TxtUrg}, body : {None, TxtPay}, body_file : BodyFiles,
     cc : {<<>>, <<AddrI>>}, bcc : {<<>>}, smtp_ok : BOOLEAN]

ReplyCalls ==
    [command : {"reply"}, rec : {Record(m.uid, m) : m \in OriginalMsgs},
     common : CommonArgs, no_quote_original : BOOLEAN, reply_all : BOOLEAN]

ForwardCalls ==
    [command : {"forward"}, rec : {Record(m.uid, m) : m \in OriginalMsgs \cup ActionMsgs},
     common : {c \in CommonArgs : c.to # <<>>},
     mode : {"inline", "attachment"}, no_attachments : BOOLEAN]

SendCalls ==
    [command : {"send"}, common : {c \in CommonArgs : c.to # <<>>}, template_name : Templates]

InitSend ==
    /\ sm_in \in ReplyCalls \cup ForwardCalls \cup SendCalls
    /\ sm_out = <<>>
    /\ eb_in = <<>>
    /\ eb_out = <<>>
    /\ pa_in = <<>>
    /\ pa_out = <<>>
    /\ fr_in = <<>>
    /\ fr_out = <<>>
    /\ SelIdle

\* One call of reply_email, as reply_email_cli makes it for a selected record.
ReplyEmail ==
    /\ sm_out = <<>>
    /\ sm_in.command = "reply"
    /\ LET c == sm_in.common
       IN  sm_out' = <<reply_email(sm_in.rec, c.sender, c.to, c.subject, c.body,
                                   c.body_file, c.cc, c.bcc, sm_in.no_quote_original,
                                   sm_in.reply_all, c.smtp_ok)>>
    /\ UNCHANGED <<sm_in, eb_in, eb_out, pa_in, pa_out, frVars, selVars, runVars>>

\* One call of forward_email.
ForwardEmail ==
    /\ sm_out = <<>>
    /\ sm_in.command = "forward"
    /\ LET c == sm_in.common
       IN  sm_out' = <<forward_email(sm_in.rec, c.sender, c.to, c.subject, c.body,
                                     c.body_file, c.cc, c.bcc, sm_in.mode,
                                     sm_in.no_attachments, c.smtp_ok)>>
    /\ UNCHANGED <<sm_in, eb_in, eb_out, pa_in, pa_out, frVars, selVars, runVars>>

\* The send command.
SendEmail ==
    /\ sm_out = <<>>
    /\ sm_in.command = "send"
    /\ LET c == sm_in.common
       IN  sm_out' = <<send_email(c.sender, c.to, c.subject, c.body, c.body_file,
                                  c.cc, c.bcc, sm_in.template_name, c.smtp_ok)>>
    /\ UNCHANGED <<sm_in, eb_in, eb_out, pa_in, pa_out, frVars, selVars, runVars>>

NextSend ==
    \/ ReplyEmail
    \/ ForwardEmail
    \/ SendEmail

SpecSend == InitSend /\ [][NextSend]_vars

------------------------------------------------------------------------------
\* Claims about filter_by_regex

\* The regexes that take part in the combination: given and not empty.
ConfiguredFields ==
    {f \in {"subject", "body", "from"} :
        CASE f = "subject" -> Truthy(fr_in.subject_re)
          [] f = "body" -> Truthy(fr_in.body_re)
          [] f = "from" -> Truthy(fr_in.from_re)}

\* The text a field's regex is searched in.
FieldText(f) ==
    CASE f = "subject" -> OrEmpty(fr_in.subject)
      [] f = "body" -> IF fr_in.body.isList THEN BodyText(fr_in.body.parts)
                       ELSE OrEmpty(fr_in.body.text)
      [] f = "from" -> OrEmpty(fr_in.sender)

FieldRegex(f) ==
    CASE f = "subject" -> fr_in.subject_re
      [] f = "body" -> fr_in.body_re
      [] f = "from" -> fr_in.from_re

FieldMatches(f) == ReSearch(FieldRegex(f), FieldText(f))

\* C1: filter_by_regex returns true iff every configured regex matches its
\* field (mode "all") or at least one does (mode "any"); regexes that are not
\* configured (None, or the empty string, which the code treats alike) take no
\* part; with none configured it returns true in both modes.
C1_RegexCombination ==
    fr_out # <<>> =>
        fr_out[1] = (IF ConfiguredFields = {} THEN TRUE
                     ELSE IF fr_in.regex_mode = "all"
                          THEN \A f \in ConfiguredFields : FieldMatches(f)
                          ELSE \E f \in ConfiguredFields : FieldMatches(f))

\* Mode "any" returns true on a subject match although the configured body
\* regex does not match (subject "Inv 4", body "pay up").
C1_Witness ==
    /\ fr_out = <<TRUE>>
    /\ fr_in.regex_mode = "any"
    /\ ConfiguredFields = {"subject", "body"}
    /\ FieldMatches("subject")
    /\ ~FieldMatches("body")
    /\ fr_in.body = BodyPayUp

------------------------------------------------------------------------------
\* Claims about the selection

\* The mailbox position of a fetched message.
IdxOf(msg) == CHOOSE i \in 1..Len(mailbox) : mailbox[i] = msg

\* The mailbox positions of the returned records, in result order.
ResultIdx == [j \in DOMAIN results |-> IdxOf(results[j].raw_msg)]

Returned(i) == \E j \in DOMAIN results : results[j].raw_msg = mailbox[i]

\* A parsed date as a UTC instant.
UtcTime(d) == IF d.aware THEN d.t - d.off ELSE d.t

\* The message's Date lies within the configured bounds.
InDateRange(msg) ==
    /\ cfg.date_since.kind = "dt" => UtcTime(msg.date) >= UtcTime(cfg.date_since)
    /\ cfg.date_before.kind = "dt" => UtcTime(msg.date) <= UtcTime(cfg.date_before)

DateBoundSet == cfg.date_since.kind = "dt" \/ cfg.date_before.kind = "dt"

\* C2: with date_since and/or date_before set, a fetched message with a
\* parseable Date is returned iff its UTC date is not earlier than date_since,
\* not later than date_before, and it passes the regex stage.
C2_DateRangeIff ==
    (pc = "done" /\ DateBoundSet) =>
        \A i \in Range(fetched) :
            mailbox[i].date.kind = "dt" =>
                (Returned(i) <=> (InDateRange(mailbox[i]) /\ PassesRegex(mailbox[i])))

\* C3: in the POP3 selection a message whose Date header is missing or does
\* not parse is never excluded by the date bounds: once fetched it is returned
\* iff it passes the regex stage, and the selection goes on to the end (it
\* never raises).
C3_UnparsedDateKept ==
    cfg.protocol = "pop3" =>
        /\ pc # "raised"
        /\ pc = "done" => k = Len(refs)
        /\ \A i \in Range(fetched) :
               mailbox[i].date.kind \in {"none", "bad"} =>
                   (Returned(i) <=> PassesRegex(mailbox[i]))

\* A POP3 run with date_since set returned the message with the unparseable
\* Date and then handled a later message, which the date bound excluded.
C3_Witness ==
    /\ cfg.protocol = "pop3"
    /\ pc = "done"
    /\ cfg.date_since.kind = "dt"
    /\ Len(fetched) = 2
    /\ mailbox[fetched[1]].date.kind = "bad"
    /\ Returned(fetched[1])
    /\ mailbox[fetched[2]].date.kind = "dt"
    /\ ~Returned(fetched[2])

\* C4: with no date bound and no regex configured, every enumerated message
\* whose fetch succeeded is returned (in fetch order), for IMAP and POP3 and
\* both regex modes.
C4_NoPredicateKeepsAll ==
    (/\ pc = "done"
     /\ ~DateBoundSet
     /\ cfg.subject_re = None /\ cfg.body_re = None /\ cfg.from_re = None) =>
        ResultIdx = fetched

\* An IMAP run in mode "any" with no predicate: one fetch failed, the two
\* other messages were returned.
C4_Witness ==
    /\ pc = "done"
    /\ cfg.protocol = "imap"
    /\ cfg.regex_mode = "any"
    /\ Len(refs) = 3
    /\ Len(fetched) = 2
    /\ ResultIdx = fetched

\* The filters the selection applies to candidate i after enumeration: the
\* regex stage, and for POP3 the client-side date stage.
PassesClientFilters(i) ==
    /\ PassesRegex(mailbox[i])
    /\ (cfg.protocol = "pop3" /\ mailbox[i].date.kind = "dt") => InDateRange(mailbox[i])

\* The mailbox positions the enumerator had to choose from.
Candidates ==
    {IF cfg.protocol = "pop3" THEN ordered[j].index ELSE ordered[j] : j \in DOMAIN ordered}

\* C5: with random_pick set, whenever at least one candidate passes the
\* configured filters (and no fetch fails), the selection returns exactly one
\* record, and that record passes the filters.
C5_RandomAmongFiltered ==
    (/\ pc = "done"
     /\ cfg.random_pick
     /\ Len(fetched) = k
     /\ \E i \in Candidates : PassesClientFilters(i)) =>
        /\ Len(results) = 1
        /\ PassesClientFilters(ResultIdx[1])

------------------------------------------------------------------------------
\* Claims about the enumerators

Enumerated == pc # "start"

\* C6: with random_pick set and a non-empty post-limit list, either enumerator
\* returns exactly one element, a member of the post-limit list.
C6_RandomPickFromCut ==
    (Enumerated /\ cfg.random_pick /\ cut # <<>>) =>
        /\ Len(refs) = 1
        /\ refs[1] \in Range(cut)
        /\ Len(cut) <= Len(ordered)
        /\ \A j \in DOMAIN cut : cut[j] = ordered[j]

\* Limit 2 on three candidates: the pick is the second element of the
\* post-limit list.
C6_Witness ==
    /\ Enumerated
    /\ cfg.random_pick
    /\ cfg.limit = 2
    /\ Len(ordered) = 3
    /\ Len(cut) = 2
    /\ refs = <<cut[2]>>

\* C7: the IMAP enumerator truncates after ordering: with n candidates it
\* keeps the first `limit` of the ordered list when 0 <= limit < n, and all n
\* when limit is negative or limit >= n; without random_pick that is the list
\* it returns.
C7_ImapLimit ==
    (Enumerated /\ cfg.protocol = "imap") =>
        LET n == Len(ordered)
            want == IF 0 <= cfg.limit /\ cfg.limit < n
                    THEN [j \in 1..cfg.limit |-> ordered[j]]
                    ELSE ordered
        IN  /\ cut = want
            /\ ~cfg.random_pick => refs = want

\* Limit 0 on a non-empty candidate list returns nothing.
C7_Witness ==
    /\ Enumerated
    /\ cfg.protocol = "imap"
    /\ ~cfg.random_pick
    /\ cfg.limit = 0
    /\ Len(ordered) = 2
    /\ refs = <<>>

\* C8: without random_pick both enumerators return the same number of refs:
\* `limit` when 0 <= limit < n, all n otherwise.
C8_SameLimitRule ==
    (Enumerated /\ ~cfg.random_pick) =>
        LET n == Len(ordered)
        IN  Len(refs) = IF 0 <= cfg.limit /\ cfg.limit < n THEN cfg.limit ELSE n

C10_Pop3SortThenLimit ==
    (Enumerated /\ cfg.protocol = "pop3") =>
        LET n == Len(mailbox)
            m == IF cfg.limit > 0 /\ cfg.limit < n THEN cfg.limit ELSE n
        IN  /\ Len(ordered) = n
            /\ \A j \in 1..n :
                   ordered[j].index = IF cfg.sort = "newest" THEN n + 1 - j ELSE j
            /\ Len(cut) = m
            /\ \A j \in 1..m :
                   cut[j].index = IF cfg.sort = "newest" THEN n + 1 - j ELSE j
            /\ ~cfg.random_pick => refs = cut

\* Three messages, "newest", limit 2: the refs are messages 3 and 2.
C10_Witness ==
    /\ Enumerated
    /\ cfg.protocol = "pop3"
    /\ cfg.sort = "newest"
    /\ cfg.limit = 2
    /\ Len(mailbox) = 3
    /\ Len(refs) = 2
    /\ refs[1].index = 3
    /\ refs[2].index = 2

------------------------------------------------------------------------------
\* Claims about extract_body_from_msg

\* The leaf parts below a message, in document order.
RECURSIVE LeavesOf(_)
LeavesOf(parts) ==
    IF parts = <<>> THEN <<>>
    ELSE (IF "parts" \in DOMAIN Head(parts) THEN LeavesOf(Head(parts).parts)
          ELSE <<Head(parts)>>) \o LeavesOf(Tail(parts))

\* The parts a body is made of: text/plain or text/html, not an attachment,
\* with a payload that decodes.
IsBodyPart(p) ==
    /\ p.ctype \in {"text/plain", "text/html"}
    /\ p.dispo # "attachment"
    /\ p.text # BadCharset

TextParts(msg) ==
    LET keep == SelectSeq(LeavesOf(msg.parts), IsBodyPart)
    IN  [i \in DOMAIN keep |-> Part(keep[i].ctype, keep[i].text)]

\* C11: for every message, multipart at any depth or single-part, the body
\* returned by extract_body_from_msg is exactly the text/plain and text/html
\* parts that are not attachments, as (content_type, text) pairs in document
\* order: no attachment payload and no part of another content type.
C11_BodyIsTextNonAttachmentParts ==
    eb_out # <<>> => eb_out[1] = TextParts(eb_in)

------------------------------------------------------------------------------
\* Claims about perform_actions_on_message

PaResult == pa_out[1].result

\* The actions the loop went through, in order.
AttemptedActs == [i \in DOMAIN PaResult.attempts |-> PaResult.attempts[i].act]

\* The key of the entry an action appends to performed.
KeyOf(act) ==
    CASE act = "navigate" -> "navigated_links"
      [] act = "download-attachments" -> "downloaded"
      [] act = "download-mail" -> "saved_mail"
      [] act = "exec" -> "executed"
      [] act = "open" -> "opened"
      [] OTHER -> "none"

\* The keys performed must hold: one per attempt that completed, in order.
CompletedKeys ==
    LET done == SelectSeq(PaResult.attempts, LAMBDA a : a.outcome = "done")
    IN  [i \in DOMAIN done |-> KeyOf(done[i].act)]

\* C12: with action_mode "all" every requested action is attempted once, in the
\* requested order, whether or not an earlier one raised; the call does not
\* raise; performed holds one entry per action that completed, in that order,
\* and none for an action that raised.
C12_AllModeIsolatesFailures ==
    (pa_out # <<>> /\ pa_in.action_mode = "all") =>
        /\ ~PaResult.raised
        /\ AttemptedActs = pa_in.actions
        /\ [i \in DOMAIN PaResult.performed |-> PaResult.performed[i].key] = CompletedKeys

\* An action raised and a later one completed.
C12_Witness ==
    /\ pa_out # <<>>
    /\ pa_in.action_mode = "all"
    /\ Len(PaResult.attempts) = 2
    /\ PaResult.attempts[1].outcome = "raised"
    /\ PaResult.attempts[2].outcome = "done"
    /\ Len(PaResult.performed) = 1

\* C13: with action_mode "random" and a non-empty action list exactly one
\* action is run, a member of the requested list: never none, never two; it
\* leaves one entry in performed when it completes.
C13_RandomModeRunsOne ==
    (pa_out # <<>> /\ pa_in.action_mode = "random" /\ pa_in.actions # <<>>) =>
        /\ Len(PaResult.attempts) = 1
        /\ PaResult.attempts[1].act \in Range(pa_in.actions)
        /\ Len(PaResult.performed) =
              (IF PaResult.attempts[1].outcome = "done" THEN 1 ELSE 0)
        /\ ~PaResult.raised

\* Two different actions requested, the second one drawn and completed.
C13_Witness ==
    /\ pa_out # <<>>
    /\ pa_in.action_mode = "random"
    /\ Len(pa_in.actions) = 2
    /\ pa_in.actions[1] # pa_in.actions[2]
    /\ PaResult.attempts[1].act = pa_in.actions[2]
    /\ Len(PaResult.performed) = 1

\* C14: with an empty action list the call returns performed empty and has no
\* side effect (no file written, no directory made, no link opened, no
\* process started), in either mode.
C14_NoActionsNoEffects ==
    (pa_out # <<>> /\ pa_in.actions = <<>>) =>
        /\ PaResult.performed = <<>>
        /\ PaResult.effects = <<>>
        /\ PaResult.attempts = <<>>
        /\ ~PaResult.raised

\* A call with no action in random mode, on the message with links and attachments.
C14_Witness ==
    /\ pa_out # <<>>
    /\ pa_in.actions = <<>>
    /\ pa_in.action_mode = "random"
    /\ pa_in.rec.id = "a1"
    /\ PaResult.performed = <<>>

------------------------------------------------------------------------------
\* Claims about fetch failures

\* C15: a fetch that fails for one message, by an error status or by a raised
\* protocol error, is not fatal in either protocol: the message is skipped,
\* every other enumerated message is still fetched and, if it passes the
\* filters, returned.
C15_FetchFailureNonFatal ==
    (pc \in {"done", "raised"} /\ refs # <<>>) =>
        /\ k = Len(refs)
        /\ \A j \in DOMAIN fetched :
              PassesClientFilters(fetched[j]) => Returned(fetched[j])

------------------------------------------------------------------------------
\* Claims about read_emails passes

\* read_emails is over: it returned, raised or exited.
PassEnded == rpc \in {"returned", "raised", "exited"}

\* The commands that close the session.
ClosingCommands ==
    IF cfg.protocol = "imap" THEN <<Cmd("CLOSE", 0), Cmd("LOGOUT", 0)>>
    ELSE <<Cmd("QUIT", 0)>>

\* The last commands sent were the closing ones.
ClosedOnWire ==
    /\ Len(wire) >= Len(ClosingCommands)
    /\ SubSeq(wire, Len(wire) - Len(ClosingCommands) + 1, Len(wire)) = ClosingCommands

\* C16: every read_emails pass that obtained a session ends with the session
\* closed (IMAP close then logout, POP3 quit), whether it completes or the
\* enumeration, a fetch or an action raises: the session is never left open.
C16_SessionClosedAtEnd ==
    (PassEnded /\ client # NoClient) => ClosedOnWire

\* C18: with pop3_delete on POP3 one DELE is sent per processed record, for
\* the message number that was retrieved for that record, and none for any
\* other message; without pop3_delete, or on IMAP, no DELE is sent.
C18_DeleteWhatWasRetrieved ==
    LET deles == SelectSeq(wire, LAMBDA c : c.cmd = "DELE")
        retr(rec) == (CHOOSE r \in Range(refs) : r.uid = rec.id).index
    IN  IF cfg.protocol = "pop3" /\ args # <<>> /\ args.pop3_delete
        THEN /\ Len(deles) = processed
             /\ \A i \in DOMAIN deles : deles[i].arg = retr(results[i])
        ELSE deles = <<>>

\* The position of mailbox index i in the enumerator's refs.
RefPos(i) ==
    CHOOSE p \in DOMAIN refs :
        (IF cfg.protocol = "pop3" THEN refs[p].index ELSE refs[p]) = i

\* The actions attempted for record n, in order.
StepsOf(n) ==
    LET own == SelectSeq(trace, LAMBDA s : s.rec = n /\ s.what # "dele")
    IN  [i \in DOMAIN own |-> own[i].what]

\* C20: within one pass the messages are fetched in the enumerator's order and
\* the returned records keep it; no action starts before the selection is
\* over; actions run record by record in that order, each record's actions in
\* the requested order and its POP3 delete last, all before anything is done
\* for the next record.
C20_RecordByRecordInOrder ==
    /\ \A a, b \in DOMAIN fetched : a < b => RefPos(fetched[a]) < RefPos(fetched[b])
    /\ \A a, b \in DOMAIN results : a < b => RefPos(ResultIdx[a]) < RefPos(ResultIdx[b])
    /\ trace # <<>> => pc = "done"
    /\ Len(results_all) = processed
    /\ \A i \in DOMAIN results_all : results_all[i].raw_msg = results[i].raw_msg
    /\ \A a, b \in DOMAIN trace :
          a < b => /\ trace[a].rec <= trace[b].rec
                   /\ trace[a].what = "dele" => trace[a].rec < trace[b].rec
    /\ \A a \in DOMAIN trace : trace[a].rec \in 1..processed
    /\ \A n \in 1..processed :
          args.action_mode = "all" => StepsOf(n) = args.actions

\* Three records taken newest first, two actions each followed by the delete.
C20_Witness ==
    /\ rpc = "returned"
    /\ cfg.protocol = "pop3"
    /\ cfg.sort = "newest"
    /\ args.pop3_delete
    /\ args.action_mode = "all"
    /\ Len(results_all) = 3
    /\ Len(trace) = 9
    /\ trace[3].what = "dele"
    /\ trace[4].rec = 2

------------------------------------------------------------------------------
\* Claims about the commands and the connection

\* The mail source could not be reached: connect_mail failed to connect or log in.
SourceUnreachable ==
    cfg.protocol \in {"imap", "pop3"} /\ rpc = "raised" /\ client = NoClient

\* read_emails returned no record.
EmptySelection == rpc = "returned" /\ results_all = <<>>

\* C17: in the reply and forward commands an unreachable mail source and an
\* empty selection are both nothing to do: the command returns without
\* raising and builds and sends no message.
C17_NothingToDoIsNotAnError ==
    (/\ args # <<>>
     /\ args.command \in {"reply", "forward"}
     /\ cpc \in {"returned", "raised"}
     /\ SourceUnreachable \/ EmptySelection) =>
        /\ cpc = "returned"
        /\ outbox = <<>>

\* C19: for imap and pop3 and for ssl and starttls, the TLS context of the
\* connection is the one create_ssl_context built from allow_insecure_tls:
\* certificates are checked unless allow_insecure_tls is set.
C19_TlsContextFromConfig ==
    (client # NoClient /\ mail_config.security \in {"ssl", "starttls"}) =>
        client.tls = create_ssl_context(mail_config.allow_insecure_tls)

------------------------------------------------------------------------------
\* Claims about empty candidate sets

\* C21: whatever limit, sort and random_pick are, once the search or listing
\* has succeeded and no candidate remains the enumerator returns the empty
\* list (it does not raise), the selection returns no record, and nothing is
\* fetched.
C21_EmptyCandidatesNoError ==
    (Enumerated /\ cut = <<>>) =>
        /\ pc = "done"
        /\ refs = <<>>
        /\ k = 0
        /\ fetched = <<>>
        /\ results = <<>>

------------------------------------------------------------------------------
\* Claims about the cleanup of read_emails

\* A cleanup step failed.
CleanupFailed ==
    client.state \in {"close failed", "logout failed", "close and logout failed",
                      "quit failed"}

\* C22: when IMAP close, IMAP logout or POP3 quit fails, read_emails still
\* returns (nothing is raised to the caller), and what it returns is the
\* result list as computed before the cleanup: one entry per selected record,
\* in order, each with its record's fields.
C22_CleanupFailureKeepsResult ==
    CleanupFailed =>
        /\ rpc = "returned"
        /\ Len(results_all) = Len(results)
        /\ \A i \in DOMAIN results_all :
              \A f \in DOMAIN results[i] : results_all[i][f] = results[i][f]

\* An IMAP pass with two records whose close and logout both failed.
C22_Witness ==
    /\ rpc = "returned"
    /\ cfg.protocol = "imap"
    /\ client.state = "close and logout failed"
    /\ Len(results_all) = 2

------------------------------------------------------------------------------
\* Claims about the IMAP search query

\* The positions of the query's keys named in S.
KeysAt(query, S) == {i \in DOMAIN query : query[i].key \in S}

\* C23: the IMAP enumerator issues exactly one search; its query holds exactly
\* one seen selector, first, ALL when include_seen is set and UNSEEN otherwise,
\* then a SINCE term iff date_since is given and a BEFORE term iff date_before
\* is given, and nothing else; with include_seen off no message that is
\* already seen is enumerated, fetched or returned.
C23_ImapQueryShape ==
    (Enumerated /\ cfg.protocol = "imap") =>
        /\ Len(searches) = 1
        /\ LET q == searches[1]
               since == KeysAt(q, {"SINCE"})
               before == KeysAt(q, {"BEFORE"})
           IN  /\ KeysAt(q, {"ALL", "UNSEEN"}) = {1}
               /\ q[1].key = IF cfg.include_seen THEN "ALL" ELSE "UNSEEN"
               /\ Cardinality(since) = IF cfg.date_since.kind = "dt" THEN 1 ELSE 0
               /\ Cardinality(before) = IF cfg.date_before.kind = "dt" THEN 1 ELSE 0
               /\ \A i \in since : q[i].day = imap_format_date(cfg.date_since)
               /\ \A i \in before : q[i].day = imap_format_date(cfg.date_before)
               /\ \A i \in since, j \in before : i < j
               /\ Len(q) = 1 + Cardinality(since) + Cardinality(before)
        /\ ~cfg.include_seen =>
              /\ \A j \in DOMAIN ordered : ~mailbox[ordered[j]].seen
              /\ \A j \in DOMAIN fetched : ~mailbox[fetched[j]].seen
              /\ \A j \in DOMAIN results : ~results[j].raw_msg.seen

\* A default run with both date bounds on a mailbox holding the seen message:
\* the query is UNSEEN SINCE BEFORE and the seen message is left out.
C23_Witness ==
    /\ pc = "done"
    /\ cfg.protocol = "imap"
    /\ ~cfg.include_seen
    /\ Len(searches) = 1
    /\ Len(searches[1]) = 3
    /\ searches[1][1].key = "UNSEEN"
    /\ \E i \in DOMAIN mailbox : mailbox[i].seen
    /\ results # <<>>

------------------------------------------------------------------------------
\* Claims about the actions of the commands

\* The actions the command line asks for were run on record n: all of them in
\* order in mode "all", one of them in mode "random".
RequestedActionsRun(n) ==
    IF args.cli.action = <<>> THEN StepsOf(n) = <<>>
    ELSE IF args.cli.action_mode = "all" THEN StepsOf(n) = args.cli.action
    ELSE Len(StepsOf(n)) = 1 /\ StepsOf(n)[1] \in Range(args.cli.action)

\* C24: in the reply command, as in read and forward, the actions given with
\* --action are run on every selected message, in the mode given with
\* --action-mode.
C24_ReplyPerformsActions ==
    (cpc = "returned" /\ rpc = "returned") =>
        \A n \in DOMAIN results_all : RequestedActionsRun(n)

------------------------------------------------------------------------------
\* Claims about build_email_message, reply_email and forward_email

SmDone == sm_out[1]

\* C25: build_email_message takes the body as a string or as the list of
\* (content_type, text) pairs that reply_email and inline forward_email hand
\* it, and returns a message without raising: every reply, forward and send
\* call whose body file (if any) can be read builds its message and reaches
\* send_prepared_email once; so does in particular a reply with a plain --body.
C25_BuildAcceptsStringOrPairs ==
    (sm_out # <<>> /\ sm_in.common.body_file # "missing") =>
        /\ ~SmDone.raised
        /\ Len(SmDone.sent) = 1

------------------------------------------------------------------------------
\* The addresses a reply to all may go to: the original's Reply-To or else
\* its sender, its To and Cc, and the addresses of the command line.
ReplyAllSources ==
    LET rec == sm_in.rec
    IN  (IF "reply_to" \in DOMAIN rec /\ rec.reply_to # <<>>
         THEN Range(rec.reply_to) ELSE {rec.from})
        \cup {rec.to}
        \cup (IF "cc" \in DOMAIN rec THEN Range(rec.cc) ELSE {})
        \cup Range(sm_in.common.to)

\* The To list of the reply that was built.
ReplyList ==
    reply_to_list(sm_in.rec, sm_in.common.sender, sm_in.common.to, sm_in.reply_all)

\* C30: with reply_all the recipient list of the reply holds exactly the whole
\* addresses of the original's Reply-To (or, without one, its sender), To and
\* Cc and of the command line, each once whatever its case, without the
\* replying sender's own address; every element is one of those addresses.
C30_ReplyAllWholeAddresses ==
    (sm_out # <<>> /\ sm_in.command = "reply" /\ sm_in.reply_all) =>
        LET own == LowerText(sm_in.common.sender)
            keys == {LowerText(a) : a \in ReplyAllSources} \ {own}
        IN  /\ \A i \in DOMAIN ReplyList : ReplyList[i] \in ReplyAllSources
            /\ {LowerText(ReplyList[i]) : i \in DOMAIN ReplyList} = keys
            /\ Len(ReplyList) = Cardinality(keys)

------------------------------------------------------------------------------
\* Claims about the shape of the selection result

\* The mailbox position a ref stands for.
RefIdx(r) == IF cfg.protocol = "pop3" THEN r.index ELSE r

\* C26: the records returned are a subsequence of the enumerated refs: each
\* stands for an enumerated message, no message twice, in the refs' order;
\* there are at most `limit` of them when limit > 0 and at most one when
\* random_pick is set.
C26_ResultIsCappedSubsequence ==
    /\ \A a, b \in DOMAIN refs : a # b => RefIdx(refs[a]) # RefIdx(refs[b])
    /\ \A j \in DOMAIN results : \E p \in DOMAIN refs : RefIdx(refs[p]) = ResultIdx[j]
    /\ \A a, b \in DOMAIN results : a < b => RefPos(ResultIdx[a]) < RefPos(ResultIdx[b])
    /\ cfg.limit > 0 => Len(results) <= cfg.limit
    /\ cfg.random_pick => Len(results) <= 1

\* Three messages, newest first, limit 2: messages 3 and 2 are returned, in
\* that order.
C26_Witness ==
    /\ pc = "done"
    /\ cfg.protocol = "pop3"
    /\ cfg.sort = "newest"
    /\ cfg.limit = 2
    /\ Len(mailbox) = 3
    /\ ResultIdx = <<3, 2>>

------------------------------------------------------------------------------
\* Claims about the POP3 enumerator's listing and the index used for RETR

\* The RETR commands sent so far.
RetrSent == SelectSeq(pop3_sent, LAMBDA c : c.cmd = "RETR")

\* The listing commands sent so far.
ListingSent == SelectSeq(pop3_sent, LAMBDA c : c.cmd \in {"UIDL", "LIST"})

\* C27: the POP3 enumerator sends UIDL first and LIST only after UIDL failed
\* with a protocol error, in which case every ref's uid is "msg-<index>";
\* either way each ref carries the server's 1-based index of its message, and
\* the loop's RETR commands carry exactly the indices of the refs, in order.
C27_Pop3ListingAndIndex ==
    (cfg.protocol = "pop3" /\ pc \in {"fetch", "done"}) =>
        /\ pop3_sent[1] = Cmd("UIDL", 0)
        /\ ListingSent = IF cfg.uidl THEN <<Cmd("UIDL", 0)>>
                         ELSE <<Cmd("UIDL", 0), Cmd("LIST", 0)>>
        /\ \A n \in 1..Len(ordered) :
              /\ ordered[n].index \in 1..Len(mailbox)
              /\ ordered[n].uid = IF cfg.uidl THEN mailbox[ordered[n].index].uid
                                  ELSE <<"msg-", ordered[n].index>>
        /\ {ordered[n].index : n \in 1..Len(ordered)} = 1..Len(mailbox)
        /\ \A n \in 1..Len(refs) : \E q \in 1..Len(ordered) : refs[n] = ordered[q]
        /\ RetrSent = [n \in 1..k |-> Cmd("RETR", refs[n].index)]

\* A run without UIDL support that has sent RETR for two refs, newest first.
C27_Witness ==
    /\ cfg.protocol = "pop3"
    /\ ~cfg.uidl
    /\ pc = "done"
    /\ Len(mailbox) >= 2
    /\ cfg.sort = "newest"
    /\ Len(RetrSent) >= 2
    /\ RetrSent[1].arg = Len(mailbox)
    /\ results # <<>>
    /\ results[1].id = <<"msg-", Len(mailbox)>>

------------------------------------------------------------------------------
\* Claims about the navigate action

\* The position of the first occurrence of u in text.
FirstAt(text, u) == CHOOSE n \in 1..Len(text) : text[n] = u /\ \A q \in 1..(n - 1) : text[q] # u

\* The browser openings of u among effects.
Openings(effects, u) ==
    Len(SelectSeq(effects, LAMBDA e : e.kind = "browser" /\ e.target = u))

\* Whether links is the list of the distinct URLs of text in first-seen order.
FirstSeenOrder(links, text) ==
    /\ \A a, b \in 1..Len(links) : a # b => links[a] # links[b]
    /\ Range(links) = Range(text)
    /\ \A a, b \in 1..Len(links) :
          a < b => FirstAt(text, links[a]) < FirstAt(text, links[b])

\* The calls whose only action is navigate.
NavigateOnly == pa_out # <<>> /\ pa_out[1].chosen = <<"navigate">>

\* C28: navigate returns the links opened: no duplicates, in first-occurrence
\* order of the URLs of the body text, each distinct URL opened at most once,
\* and a URL is in the returned list only if the browser opened it.
C28_NavigateReturnsOpenedLinks ==
    NavigateOnly =>
        LET res == pa_out[1].result
            links == res.performed[1].value
        IN  /\ Len(res.performed) = 1
            /\ res.performed[1].key = "navigated_links"
            /\ FirstSeenOrder(links, findall_links(BodyText(pa_in.rec.body)))
            /\ \A u \in Urls : Openings(res.effects, u) <= 1
            /\ \A n \in 1..Len(links) : Openings(res.effects, links[n]) = 1

------------------------------------------------------------------------------
\* Claims about the results of read_emails

\* The action run of record n as the trace has it: the actions attempted and
\* what failed in each.
RunOf(n) ==
    LET own == SelectSeq(trace, LAMBDA s : s.rec = n /\ s.what # "dele")
    IN  RunActions([i \in DOMAIN own |-> own[i].what], results[n],
                   [i \in DOMAIN own |-> own[i].fail], NoActionDone)

\* C29: read_emails returns one result per selected record, in selection
\* order; each result has its record's fields with their values and one more
\* field, actions, holding the performed list of that record's action run.
C29_ResultsAreRecordsPlusActions ==
    /\ Len(results_all) <= Len(results)
    /\ rpc = "returned" => Len(results_all) = Len(results)
    /\ \A n \in DOMAIN results_all :
          /\ DOMAIN results_all[n] = DOMAIN results[n] \cup {"actions"}
          /\ \A f \in DOMAIN results[n] : results_all[n][f] = results[n][f]
          /\ results_all[n].actions = RunOf(n).performed

\* A pass that returned two records whose action runs gave different
\* performed lists.
C29_Witness ==
    /\ rpc = "returned"
    /\ Len(results_all) = 2
    /\ results_all[1].actions # <<>>
    /\ results_all[1].actions # results_all[2].actions
    /\ results_all[1].id # results_all[2].id

====
